---- MODULE Spec2Model ----
(***************************************************************************)
(* Pull-request synchronization of the desktop client:                     *)
(* app/src/lib/stores/pull-request-store.ts.                               *)
(*                                                                         *)
(* A refreshPullRequests call is an async function: it runs atomically     *)
(* from one awaited I/O operation to the next.  Each action below is one   *)
(* such stretch of a call: the resolution (or rejection) of the operation  *)
(* the call awaits, followed by the synchronous code up to the next        *)
(* awaited I/O operation.                                                  *)
(*                                                                         *)
(* isMojaveOrLater of app/src/lib/get-os.ts is a pure function of the      *)
(* platform and of the version string the user agent parser reports; it    *)
(* has a specification of its own, SpecOS.                                 *)
(*                                                                         *)
(* Three components of the user interface, each with a specification of    *)
(* its own: the merge conflicts dialog (SpecMergeConflicts), the fork      *)
(* dialog (SpecCreateFork) and the syntax highlighting of the text diff    *)
(* (SpecTextDiff).                                                         *)
(***************************************************************************)
EXTENDS Integers, Sequences, FiniteSets, TLC

\* Number of refreshPullRequests calls that can be in flight together.
MaxCalls == 2
\* Pull request numbers of a repository are 1..MaxPR.
MaxPR == 2

Calls == 1..MaxCalls
PRNumbers == 1..MaxPR

\* A repo descriptor or a database id that is null.
null == "null"
\* A lastUpdatedAt that is null; the timestamps of pull requests are 1, 2, ...
NoDate == 0

\* Database ids of the GitHub repositories pull requests are refreshed for.
Repositories == {"repoA", "repoB"}

VARIABLES
  activeFetchCountPerRepository, \* Map<number, number>, by repository dbID
  db,             \* pullRequests table: repository id -> (number -> row)
  txn,            \* the open 'rw' transaction on the table: owner, staged rows
  pc,             \* where each call is
  repository,     \* the GitHub repository (dbID) each call refreshes
  lastUpdatedAt,  \* the local of that name of each call
  requests,       \* the API requests each call has issued, in order
  apiResult,      \* the local of that name of each call
  prsToDelete,    \* cachePullRequests' local of each call
  prsToUpsert,    \* cachePullRequests' local of each call
  outcome,        \* how each call ended
  failedAt,       \* the awaited step whose failure the call caught
  dbAtStart,      \* history: the repository's rows when the latest call began
  decrements,     \* history: Decrement updates each call has made
  emitted,        \* history: the emitUpdate calls each call has made, in order
  lookups,        \* history: the ids getAll of each call looked up, in order
  lastFetch,      \* history: the call whose API request resolved last
  pullRequests,   \* what getAll of each call resolved with, while in use
  remotes,        \* the git remotes of each repository, in git's order
  remotesLeft,    \* pruneForkedRemotes: the remotes each call has yet to remove
  unresolved,     \* the ids the repositories store holds no record for,
                  \* when getAll is called on its own
  getAllReturn,   \* what a getAll call on its own ended with, if made
  DARWIN,         \* get-os.ts: the build-time platform flag __DARWIN__
  osVersion,      \* get-os.ts: new UAParser().getOS().version
  mojaveOrLater,  \* get-os.ts: what isMojaveOrLater() returned
  mergeFiles,     \* MergeConflictsDialog: props.status.files, their statuses
  mergePc,        \* MergeConflictsDialog: where the dialog's handler is
  mergeHandler,   \* MergeConflictsDialog: the handler called last
  mergeLog,       \* history: the calls that handler has made, in order
  forkProps,      \* CreateForkDialog: props.repository and props.account
  forkPc,         \* CreateForkDialog: where onSubmit is
  forkState,      \* CreateForkDialog: this.state, loading and error
  forkLog,        \* history: the calls onSubmit has made, in order
  diffProps,      \* TextDiff: this.props, file id, text and hunks
  propsSnapshot,  \* TextDiff: initDiffSyntaxMode's local of that name
  diffPc,         \* TextDiff: where initDiffSyntaxMode is
  codeMirrorMode, \* TextDiff: the 'mode' option of the editor
  diffChanged     \* history: file id or text changed since the snapshot

vars == <<activeFetchCountPerRepository, db, txn, pc, repository,
          lastUpdatedAt, requests, apiResult, prsToDelete, prsToUpsert,
          outcome, failedAt, dbAtStart, decrements, emitted, lookups,
          lastFetch, pullRequests, remotes, remotesLeft,
          unresolved, getAllReturn, DARWIN, osVersion, mojaveOrLater,
          mergeFiles, mergePc, mergeHandler, mergeLog,
          forkProps, forkPc, forkState, forkLog,
          diffProps, propsSnapshot, diffPc, codeMirrorMode, diffChanged>>

\* The variables of get-os.ts, which the pull request store leaves alone.
osVars == <<DARWIN, osVersion, mojaveOrLater>>

\* The variables of getAll called on its own, not from refreshPullRequests.
getAllVars == <<unresolved, getAllReturn>>

\* The variables of the merge conflicts dialog.
mergeVars == <<mergeFiles, mergePc, mergeHandler, mergeLog>>

\* The variables of the fork dialog.
forkVars == <<forkProps, forkPc, forkState, forkLog>>

\* The variables of the text diff.
diffVars == <<diffProps, propsSnapshot, diffPc, codeMirrorMode, diffChanged>>

\* The variables of the components of the user interface.
uiVars == <<mergeVars, forkVars, diffVars>>

\* The variables the steps of refreshPullRequests leave alone.
nonStoreVars == <<getAllVars, osVars, uiVars>>

(***************************************************************************)
(* Data                                                                    *)
(***************************************************************************)

\* A pull request as the API returns it (IAPIPullRequest), for the
\* repository whose descriptor is baseRepo; repo descriptors are modelled by
\* the database id the repositories store gives them.
APIPullRequest(number, title, updated, state, headRepo, baseRepo) ==
  [number |-> number, title |-> title, created_at |-> 1,
   updated_at |-> updated, state |-> state,
   head |-> [ref |-> "topic", sha |-> "h", repo |-> headRepo],
   base |-> [ref |-> "master", sha |-> "b", repo |-> baseRepo],
   user |-> [login |-> "octocat"]]

\* All sequences over the pull requests U with at most MaxPR elements and no
\* pull request number twice: an API response lists a pull request once.
ListsOver(U) ==
  UNION {{s \in [1..n -> U] :
            \A i, j \in 1..n : i # j => s[i].number # s[j].number}
         : n \in 0..MaxPR}

\* The rows of one repository are a map from pull request number to row.
EmptyTable == [n \in {} |-> n]

Rows(table) == {table[n] : n \in DOMAIN table}

(***************************************************************************)
(* get-os.ts: isMojaveOrLater                                              *)
(***************************************************************************)

\* A string is the sequence of its UTF-16 code units.
Dot == 46
Zero == 48

\* The greatest minor version of the macOS versions tried.
MaxMinor == 15

\* The decimal numeral of a natural number.
RECURSIVE Decimal(_)
Decimal(n) ==
  IF n < 10 THEN <<Zero + n>>
  ELSE Decimal(n \div 10) \o <<Zero + (n % 10)>>

\* The version string of the numbers given: "10.14" for <<10, 14>>.
RECURSIVE VersionString(_)
VersionString(numbers) ==
  IF Len(numbers) = 1 THEN Decimal(numbers[1])
  ELSE Decimal(numbers[1]) \o <<Dot>> \o VersionString(Tail(numbers))

\* os.version.split('.')
RECURSIVE Split(_)
Split(str) ==
  IF \A i \in 1..Len(str) : str[i] # Dot THEN <<str>>
  ELSE LET dot == CHOOSE i \in 1..Len(str) :
                    /\ str[i] = Dot
                    /\ \A j \in 1..(i - 1) : str[j] # Dot
       IN  <<SubSeq(str, 1, dot - 1)>>
             \o Split(SubSeq(str, dot + 1, Len(str)))

\* a > b on two strings: by code unit from the left, a proper prefix being
\* the lesser.
RECURSIVE StringGreater(_, _)
StringGreater(a, b) ==
  IF a = <<>> THEN FALSE
  ELSE IF b = <<>> THEN TRUE
  ELSE IF Head(a) # Head(b) THEN Head(a) > Head(b)
  ELSE StringGreater(Tail(a), Tail(b))

\* version is <<>> for a version that is null or undefined, <<str>> else.
isMojaveOrLater(darwin, version) ==
  IF darwin
  THEN IF version = <<>> THEN FALSE
       ELSE LET parts == Split(version[1])
            IN  IF Len(parts) < 2 THEN FALSE
                ELSE StringGreater(parts[2], Decimal(13))
  ELSE FALSE

\* The versions the user agent parser may report: none, or a string of one,
\* two or three numbers.
OSVersions ==
  {<<>>}
  \cup {<<VersionString(<<major>>)>> : major \in {10, 11}}
  \cup {<<VersionString(<<major, minor>>)>> :
          major \in {10, 11}, minor \in 0..MaxMinor}
  \cup {<<VersionString(<<major, minor, 6>>)>> :
          major \in {10, 11}, minor \in 0..MaxMinor}

(***************************************************************************)
(* The fetch-activity counter                                              *)
(***************************************************************************)

DecrementByTwo(n) == n - 2

Decrement(n) == n - 1
Increment(n) == n + 1

\* this.activeFetchCountPerRepository.get(repoDbId) || 0
CurrentCount(map, repoDbId) ==
  IF repoDbId \in DOMAIN map /\ map[repoDbId] # 0 THEN map[repoDbId] ELSE 0

updateActiveFetchCountOfAll(map, repoDbId, update) ==
  LET currentCount == CurrentCount(map, repoDbId)
      newCount == IF update = "Increment" THEN Increment(currentCount)
                  ELSE Decrement(currentCount)
  IN  [k \in DOMAIN map \cup {repoDbId} |-> newCount]

\* update is the name of the function refreshPullRequests passes.
updateActiveFetchCount(map, repoDbId, update) ==
  LET currentCount == CurrentCount(map, repoDbId)
      newCount == IF update = "Increment" THEN Increment(currentCount)
                  ELSE Decrement(currentCount)
  IN  [k \in DOMAIN map \cup {repoDbId} |->
         IF k = repoDbId THEN newCount ELSE map[k]]

isFetchingPullRequests(map, repoDbId) == CurrentCount(map, repoDbId) > 0

emitUpdateDropped(log, repoDbId, from) == log

\* this.emitUpdate(repository): one update notification for the repository.
\* The log of a call keeps them in order, each with the method it was
\* emitted from.
emitUpdate(log, repoDbId, from) ==
  Append(log, [repository |-> repoDbId, from |-> from])

(***************************************************************************)
(* The pull request database and the repositories store                    *)
(***************************************************************************)

\* The last-synchronized timestamp of a repository: the greatest updatedAt
\* of its rows, null when it has none.
getLastUpdated(table) ==
  IF Rows(table) = {} THEN NoDate
  ELSE CHOOSE t \in {r.updatedAt : r \in Rows(table)} :
         \A r \in Rows(table) : r.updatedAt <= t

\* <<row>>, or <<>> for undefined.
getPullRequest(table, number) ==
  IF number \in DOMAIN table THEN <<table[number]>> ELSE <<>>

\* Rows are keyed by (repository, number): a delete removes the rows with
\* the numbers of prs.
deletePullRequests(table, prs) ==
  [n \in DOMAIN table \ {prs[i].number : i \in 1..Len(prs)} |-> table[n]]

\* A put adds or replaces the row of each of prs, in order.
putPullRequests(table, prs) ==
  [n \in DOMAIN table \cup {prs[i].number : i \in 1..Len(prs)} |->
     IF \E i \in 1..Len(prs) : prs[i].number = n
     THEN LET last == CHOOSE i \in 1..Len(prs) :
                        /\ prs[i].number = n
                        /\ \A j \in 1..Len(prs) : prs[j].number = n => j <= i
          IN  prs[last]
     ELSE table[n]]

\* structuralEquals on two IPullRequest rows: every field, nested ones too.
structuralEquals(x, y) ==
  /\ x.number = y.number
  /\ x.title = y.title
  /\ x.createdAt = y.createdAt
  /\ x.updatedAt = y.updatedAt
  /\ x.head.ref = y.head.ref
  /\ x.head.sha = y.head.sha
  /\ x.head.repoId = y.head.repoId
  /\ x.base.ref = y.base.ref
  /\ x.base.sha = y.base.sha
  /\ x.base.repoId = y.base.repoId
  /\ x.author = y.author

\* The record upsertGitHubRepository resolves a repo descriptor to; how is
\* what the repositories store does: "ok", or "noDbID" (a record without id).
upsertGitHubRepository(repo, how) ==
  [dbID |-> IF how = "noDbID" THEN null ELSE repo]

(***************************************************************************)
(* The API                                                                 *)
(***************************************************************************)

OpenRequest == [kind |-> "open", since |-> NoDate]
UpdatedRequest(since) == [kind |-> "updatedSince", since |-> since]

\* What the API may answer to a request, over the pull requests U of the
\* remote repository: the open ones, or those updated at or after since.
Answers(U, request) ==
  IF request.kind = "open"
  THEN ListsOver({p \in U : p.state = "open"})
  ELSE ListsOver({p \in U : p.updated_at >= request.since})

(***************************************************************************)
(* cachePullRequests: the loop over the fetched pull requests              *)
(***************************************************************************)

\* What the repositories store does in one run of the loop: nothing goes
\* wrong, or the upsert of the head or base repository of the pull request
\* at index `at` throws or resolves to a record without database id.
NoFailure == [at |-> 0, step |-> "none", how |-> "ok"]

Failures(prs) ==
  {NoFailure} \cup [at : 1..Len(prs), step : {"head", "base"},
                    how : {"throws", "noDbID"}]

How(fail, i, step) ==
  IF fail.at = i /\ fail.step = step THEN fail.how ELSE "ok"

HasNoHeadRepositoryNever(pr) == FALSE

\* pr.head.repo == null: the pull request is skipped (continue).
HasNoHeadRepository(pr) == pr.head.repo = null

IsClosedOnly(pr) == pr.state = "closed"

\* pr.state === 'closed' || pr.state === 'merged'
IsClosedOrMerged(pr) == pr.state = "closed" \/ pr.state = "merged"

dbPrOfNextNumber(pr, headRepo, baseGitHubRepo) ==
  [number |-> (pr.number % MaxPR) + 1,
   title |-> pr.title,
   createdAt |-> pr.created_at,
   updatedAt |-> pr.updated_at,
   head |-> [ref |-> pr.head.ref, sha |-> pr.head.sha,
             repoId |-> headRepo.dbID],
   base |-> [ref |-> pr.base.ref, sha |-> pr.base.sha,
             repoId |-> baseGitHubRepo.dbID],
   author |-> pr.user.login]

dbPr(pr, headRepo, baseGitHubRepo) ==
  [number |-> pr.number,
   title |-> pr.title,
   createdAt |-> pr.created_at,
   updatedAt |-> pr.updated_at,
   head |-> [ref |-> pr.head.ref, sha |-> pr.head.sha,
             repoId |-> headRepo.dbID],
   base |-> [ref |-> pr.base.ref, sha |-> pr.base.sha,
             repoId |-> baseGitHubRepo.dbID],
   author |-> pr.user.login]

Thrown(status, n) ==
  [status |-> status, prsToDelete |-> <<>>, prsToUpsert |-> <<>>,
   upsertCalls |-> n]

\* The loop from index i on, with the sets built so far and the number n of
\* upsertGitHubRepository calls made so far.
RECURSIVE CacheLoop(_, _, _, _, _, _)
CacheLoop(prs, i, toDelete, toUpsert, n, fail) ==
  IF i > Len(prs)
  THEN [status |-> "ok", prsToDelete |-> toDelete, prsToUpsert |-> toUpsert,
        upsertCalls |-> n]
  ELSE
    LET pr == prs[i]
        headRepo == upsertGitHubRepository(pr.head.repo, How(fail, i, "head"))
        baseGitHubRepo ==
          upsertGitHubRepository(pr.base.repo, How(fail, i, "base"))
        row == dbPr(pr, headRepo, baseGitHubRepo)
    IN  IF HasNoHeadRepository(pr)
        THEN CacheLoop(prs, i + 1, toDelete, toUpsert, n, fail)
        ELSE IF How(fail, i, "head") = "throws"
        THEN Thrown("throws", n + 1)
        ELSE IF headRepo.dbID = null
        THEN Thrown("fatalError", n + 1)
        ELSE IF pr.base.repo = null
        THEN Thrown("fatalError", n + 1)
        ELSE IF How(fail, i, "base") = "throws"
        THEN Thrown("throws", n + 2)
        ELSE IF baseGitHubRepo.dbID = null
        THEN Thrown("fatalError", n + 2)
        ELSE IF IsClosedOrMerged(pr)
        THEN CacheLoop(prs, i + 1, Append(toDelete, row), toUpsert, n + 2,
                       fail)
        ELSE CacheLoop(prs, i + 1, toDelete, Append(toUpsert, row), n + 2,
                       fail)

ReturnsEarlyNever(pullRequestsFromAPI) == FALSE

\* pullRequestsFromAPI.length === 0: return false at once.
ReturnsEarly(pullRequestsFromAPI) == Len(pullRequestsFromAPI) = 0

IsSingleUpsertSwapped(toDelete, toUpsert) ==
  Len(toDelete) = 1 /\ Len(toUpsert) = 0

\* prsToDelete.length === 0 && prsToUpsert.length === 1
IsSingleUpsert(toDelete, toUpsert) == Len(toDelete) = 0 /\ Len(toUpsert) = 1

IsUnchangedAnyCached(cur, prev) == prev # <<>>

\* prev !== undefined && structuralEquals(cur, prev)
IsUnchanged(cur, prev) == prev # <<>> /\ structuralEquals(cur, prev[1])

(***************************************************************************)
(* getAll                                                                  *)
(***************************************************************************)

\* The rows of a repository as the table's index yields them: by number.
RECURSIVE getAllPullRequestsInRepository(_)
getAllPullRequestsInRepository(table) ==
  IF DOMAIN table = {} THEN <<>>
  ELSE LET last == CHOOSE n \in DOMAIN table : \A m \in DOMAIN table : m <= n
       IN  Append(getAllPullRequestsInRepository(
                    [n \in DOMAIN table \ {last} |-> table[n]]),
                  table[last])

\* The record the repositories store holds under id (modelled by its id),
\* null for the ids it holds none for.
findGitHubRepositoryByID(id, missing) == IF id \in missing THEN null ELSE id

getRepoMissesAlways(memo, id) == TRUE

\* getRepo = mem(findGitHubRepositoryByID): the store is asked for an id
\* only when the memo of this getAll call does not hold it yet.
getRepoMisses(memo, id) == id \notin memo

\* new Date(value): the date of that time value.
NewDate(value) == [time |-> value]

\* new PullRequest(created, title, number, head, base, author)
PullRequest(record, headRepository, baseRepository) ==
  [created |-> NewDate(record.createdAt),
   title |-> record.title,
   pullRequestNumber |-> record.number,
   head |-> [ref |-> record.head.ref, sha |-> record.head.sha,
             gitHubRepository |-> headRepository],
   base |-> [ref |-> record.base.ref, sha |-> record.base.sha,
             gitHubRepository |-> baseRepository],
   author |-> record.author]

ReverseNot(result) == result

\* result.reverse()
Reverse(result) ==
  [i \in 1..Len(result) |-> result[Len(result) + 1 - i]]

\* The loop of getAll from index i on, with the ids the memo holds, the ids
\* the store was asked for so far and the pull requests built so far.
RECURSIVE GetAllLoop(_, _, _, _, _, _)
GetAllLoop(records, i, memo, asked, result, missing) ==
  IF i > Len(records)
  THEN [status |-> "ok", lookups |-> asked, result |-> Reverse(result)]
  ELSE
    LET record == records[i]
        headId == record.head.repoId
        headAsked == IF headId # null /\ getRepoMisses(memo, headId)
                     THEN Append(asked, headId) ELSE asked
        headMemo == IF headId # null THEN memo \cup {headId} ELSE memo
        headRepository == IF headId # null
                          THEN findGitHubRepositoryByID(headId, missing)
                          ELSE null
        baseId == record.base.repoId
        baseAsked == IF getRepoMisses(headMemo, baseId)
                     THEN Append(headAsked, baseId) ELSE headAsked
        baseRepository == findGitHubRepositoryByID(baseId, missing)
    IN  IF baseRepository = null
        THEN [status |-> "fatalError", lookups |-> baseAsked,
              result |-> <<>>]
        ELSE GetAllLoop(records, i + 1, headMemo \cup {baseId}, baseAsked,
                        Append(result, PullRequest(record, headRepository,
                                                   baseRepository)),
                        missing)

\* The repository ids the rows refer to.
RepositoryIds(table) ==
  {r.head.repoId : r \in Rows(table)} \cup {r.base.repoId : r \in Rows(table)}

(***************************************************************************)
(* pruneForkedRemotes                                                      *)
(***************************************************************************)

\* The name of a remote is the sequence of the pieces it is written from.
ForkedRemotePrefix == <<"github-desktop-">>

\* name.startsWith(prefix)
startsWith(name, prefix) ==
  Len(name) >= Len(prefix) /\ SubSeq(name, 1, Len(prefix)) = prefix

\* IRemote
Remote(name, url) == [name |-> name, url |-> url]

\* The remote a clone has from the start.
Origin(r) == Remote(<<"origin">>, <<"https://", r>>)

\* cloneURL of a GitHubRepository: null for "bare", which has none.
cloneURL(gitHubRepository) ==
  IF gitHubRepository = "bare" THEN <<>> ELSE <<"https://", gitHubRepository>>

\* The clone URLs of the head repositories of the pull requests, of those
\* that have a head repository with a clone URL.
prRemotes(prs) ==
  {cloneURL(prs[i].head.gitHubRepository) :
     i \in {j \in 1..Len(prs) :
              /\ prs[j].head.gitHubRepository # null
              /\ cloneURL(prs[j].head.gitHubRepository) # <<>>}}

ShouldRemoveAnyUnused(r, urls) == r.url \notin urls

\* r.name.startsWith(ForkedRemotePrefix) && !prRemotes.has(r.url)
ShouldRemove(r, urls) ==
  startsWith(r.name, ForkedRemotePrefix) /\ r.url \notin urls

\* The remotes of the list the loop removes, in order.
ToRemove(list, urls) == SelectSeq(list, LAMBDA r : ShouldRemove(r, urls))

\* git remote remove: the remotes without the one of that name.
removeRemote(list, name) == SelectSeq(list, LAMBDA r : r.name # name)

(***************************************************************************)
(* refreshPullRequests                                                     *)
(***************************************************************************)

RequestForSwapped(updatedAt) ==
  IF updatedAt # NoDate THEN OpenRequest ELSE UpdatedRequest(updatedAt)

\* The request the call issues after reading lastUpdatedAt.
RequestFor(updatedAt) ==
  IF updatedAt # NoDate THEN UpdatedRequest(updatedAt) ELSE OpenRequest

NoTxn == [owner |-> 0, table |-> EmptyTable]

\* The pull request store after construction, no call made.
InitCalls ==
  /\ activeFetchCountPerRepository = [k \in {} |-> 0]
  /\ txn = NoTxn
  /\ pc = [c \in Calls |-> "idle"]
  /\ repository = [c \in Calls |-> null]
  /\ lastUpdatedAt = [c \in Calls |-> NoDate]
  /\ requests = [c \in Calls |-> <<>>]
  /\ apiResult = [c \in Calls |-> <<>>]
  /\ prsToDelete = [c \in Calls |-> <<>>]
  /\ prsToUpsert = [c \in Calls |-> <<>>]
  /\ outcome = [c \in Calls |-> "none"]
  /\ failedAt = [c \in Calls |-> "none"]
  /\ dbAtStart = EmptyTable
  /\ decrements = [c \in Calls |-> 0]
  /\ emitted = [c \in Calls |-> <<>>]
  /\ lookups = [c \in Calls |-> <<>>]
  /\ lastFetch = 0
  /\ pullRequests = [c \in Calls |-> <<>>]
  /\ remotesLeft = [c \in Calls |-> <<>>]
  /\ getAllReturn = <<>>

\* ... with no pull request cached.
InitPullRequestStore ==
  /\ InitCalls
  /\ db = [r \in Repositories |-> EmptyTable]

\* macOS 10.14, isMojaveOrLater not called.
InitMojave ==
  /\ DARWIN = TRUE
  /\ osVersion = <<VersionString(<<10, 14>>)>>
  /\ mojaveOrLater = <<>>

\* No merge conflicts dialog is shown.
InitNoMergeConflictsDialog ==
  /\ mergeFiles = <<>>
  /\ mergePc = "unmounted"
  /\ mergeHandler = "none"
  /\ mergeLog = <<>>

\* No fork dialog is shown.
InitNoCreateForkDialog ==
  /\ forkProps = <<>>
  /\ forkPc = "unmounted"
  /\ forkState = <<>>
  /\ forkLog = <<>>

\* No text diff is shown.
InitNoTextDiff ==
  /\ diffProps = <<>>
  /\ propsSnapshot = <<>>
  /\ diffPc = "unmounted"
  /\ codeMirrorMode = <<>>
  /\ diffChanged = FALSE

\* No component of the user interface is shown.
InitNoUI ==
  /\ InitNoMergeConflictsDialog
  /\ InitNoCreateForkDialog
  /\ InitNoTextDiff

\* The store of a clone with no remote but origin, no pull request cached.
InitStore ==
  /\ InitPullRequestStore
  /\ remotes = [r \in Repositories |-> <<Origin(r)>>]
  /\ unresolved = {}

\* The store on macOS 10.14, isMojaveOrLater not called, no dialog shown.
Init ==
  /\ InitStore
  /\ InitMojave
  /\ InitNoUI

FinallyEmittingUpdate(c, out, at) ==
  /\ activeFetchCountPerRepository' =
       updateActiveFetchCount(activeFetchCountPerRepository, repository[c],
                              "Decrement")
  /\ LET log == emitUpdate(emitted[c], repository[c], "refreshPullRequests")
     IN  emitted' = [emitted EXCEPT ![c] =
                       emitUpdate(log, repository[c],
                                  "updateActiveFetchCount")]
  /\ pullRequests' = [pullRequests EXCEPT ![c] = <<>>]
  /\ remotesLeft' = [remotesLeft EXCEPT ![c] = <<>>]
  /\ decrements' = [decrements EXCEPT ![c] = @ + 1]
  /\ pc' = [pc EXCEPT ![c] = "done"]
  /\ outcome' = [outcome EXCEPT ![c] = out]
  /\ failedAt' = [failedAt EXCEPT ![c] = at]

\* catch (if the call failed at `at`) and finally: the call logs, decrements
\* the counter of its repository, emits the update of the counter and ends.
\* A call that ends with the cache changed has emitted the update of the
\* pull requests just before.
Finally(c, out, at) ==
  /\ activeFetchCountPerRepository' =
       updateActiveFetchCount(activeFetchCountPerRepository, repository[c],
                              "Decrement")
  /\ LET log == IF out = "changed"
                THEN emitUpdate(emitted[c], repository[c],
                                "refreshPullRequests")
                ELSE emitted[c]
     IN  emitted' = [emitted EXCEPT ![c] =
                       emitUpdate(log, repository[c],
                                  "updateActiveFetchCount")]
  /\ pullRequests' = [pullRequests EXCEPT ![c] = <<>>]
  /\ remotesLeft' = [remotesLeft EXCEPT ![c] = <<>>]
  /\ decrements' = [decrements EXCEPT ![c] = @ + 1]
  /\ pc' = [pc EXCEPT ![c] = "done"]
  /\ outcome' = [outcome EXCEPT ![c] = out]
  /\ failedAt' = [failedAt EXCEPT ![c] = at]

\* A caller calls refreshPullRequests for repository r: the counter is
\* incremented and the read of the last-updated timestamp is issued.
Start(c, r) ==
  /\ pc[c] = "idle"
  /\ activeFetchCountPerRepository' =
       updateActiveFetchCount(activeFetchCountPerRepository, r, "Increment")
  /\ repository' = [repository EXCEPT ![c] = r]
  /\ emitted' = [emitted EXCEPT ![c] =
                   emitUpdate(@, r, "updateActiveFetchCount")]
  /\ dbAtStart' = db[r]
  /\ pc' = [pc EXCEPT ![c] = "getLastUpdated"]
  /\ UNCHANGED <<db, txn, lastUpdatedAt, requests, apiResult, prsToDelete,
                 prsToUpsert, outcome, failedAt, decrements, pullRequests,
                 remotesLeft>>
  /\ UNCHANGED <<lookups, lastFetch, nonStoreVars, remotes>>

\* db.getLastUpdated resolves; the call issues its API request.
GetLastUpdated(c) ==
  /\ pc[c] = "getLastUpdated"
  /\ LET read == getLastUpdated(db[repository[c]])
     IN  /\ lastUpdatedAt' = [lastUpdatedAt EXCEPT ![c] = read]
         /\ requests' = [requests EXCEPT ![c] = Append(@, RequestFor(read))]
  /\ pc' = [pc EXCEPT ![c] = "fetch"]
  /\ UNCHANGED <<activeFetchCountPerRepository, db, txn, repository,
                 apiResult, prsToDelete, prsToUpsert, outcome,
                 failedAt, dbAtStart, decrements, emitted,
                 pullRequests, remotesLeft>>
  /\ UNCHANGED <<lookups, lastFetch, nonStoreVars, remotes>>

\* db.getLastUpdated rejects: the await is before the try, so the call
\* rejects without reaching catch or finally.
GetLastUpdatedThrows(c) ==
  /\ pc[c] = "getLastUpdated"
  /\ pc' = [pc EXCEPT ![c] = "rejected"]
  /\ failedAt' = [failedAt EXCEPT ![c] = "getLastUpdated"]
  /\ UNCHANGED <<activeFetchCountPerRepository, db, txn, repository,
                 lastUpdatedAt, requests, apiResult, prsToDelete,
                 prsToUpsert, outcome, dbAtStart, decrements, emitted,
                 pullRequests, remotesLeft>>
  /\ UNCHANGED <<lookups, lastFetch, nonStoreVars, remotes>>

\* The API answers with one of the lists over U that fit the request;
\* cachePullRequests starts, and returns false at once for an empty list.
\* The specifications that compare the calls by the order of their fetches
\* record it (inOrder).
FetchResolves(c, U, inOrder) ==
  /\ pc[c] = "fetch"
  /\ \E result \in Answers(U, requests[c][Len(requests[c])]) :
       /\ apiResult' = [apiResult EXCEPT ![c] = result]
       /\ lastFetch' = IF inOrder THEN c ELSE lastFetch
       /\ IF ReturnsEarly(result)
          THEN Finally(c, "noChange", "none")
          ELSE /\ pc' = [pc EXCEPT ![c] = "upsertGitHubRepository"]
               /\ UNCHANGED <<activeFetchCountPerRepository, outcome,
                              failedAt, decrements, emitted,
                              pullRequests, remotesLeft>>
  /\ UNCHANGED <<db, txn, repository, lastUpdatedAt, requests, prsToDelete,
                 prsToUpsert, dbAtStart>>
  /\ UNCHANGED <<lookups, nonStoreVars, remotes>>

FetchThrows(c) ==
  /\ pc[c] = "fetch"
  /\ Finally(c, "failed", "fetch")
  /\ UNCHANGED <<db, txn, repository, lastUpdatedAt, requests, apiResult,
                 prsToDelete, prsToUpsert, dbAtStart>>
  /\ UNCHANGED <<lookups, lastFetch, nonStoreVars, remotes>>

\* The loop of cachePullRequests runs, resolving repositories; when it
\* completes, the call reads the cached row of a single upsert or opens the
\* transaction.
ResolveRepositories(c) ==
  /\ pc[c] = "upsertGitHubRepository"
  /\ \E fail \in Failures(apiResult[c]) :
       LET loop == CacheLoop(apiResult[c], 1, <<>>, <<>>, 0, fail)
       IN  /\ prsToDelete' = [prsToDelete EXCEPT ![c] = loop.prsToDelete]
           /\ prsToUpsert' = [prsToUpsert EXCEPT ![c] = loop.prsToUpsert]
           /\ IF loop.status = "ok"
              THEN /\ pc' = [pc EXCEPT ![c] =
                        IF IsSingleUpsert(loop.prsToDelete, loop.prsToUpsert)
                        THEN "getPullRequest" ELSE "transaction"]
                   /\ UNCHANGED <<activeFetchCountPerRepository, outcome,
                                  failedAt, decrements, emitted,
                                  pullRequests, remotesLeft>>
              ELSE Finally(c, "failed", loop.status)
  /\ UNCHANGED <<db, txn, repository, lastUpdatedAt, requests, apiResult,
                 dbAtStart>>
  /\ UNCHANGED <<lookups, lastFetch, nonStoreVars, remotes>>

GetPullRequestReturnsTrue(c) ==
  /\ pc[c] = "getPullRequest"
  /\ LET cur == prsToUpsert[c][1]
         prev == getPullRequest(db[repository[c]], cur.number)
     IN  /\ pc' = [pc EXCEPT ![c] = IF IsUnchanged(cur, prev)
                                    THEN "getAll" ELSE "transaction"]
         /\ UNCHANGED <<activeFetchCountPerRepository, outcome,
                        failedAt, decrements, emitted,
                        pullRequests, remotesLeft>>
  /\ UNCHANGED <<db, txn, repository, lastUpdatedAt, requests, apiResult,
                 prsToDelete, prsToUpsert, dbAtStart>>
  /\ UNCHANGED <<lookups, lastFetch, nonStoreVars, remotes>>

\* db.getPullRequest resolves with the cached row of the single upsert.
GetPullRequest(c) ==
  /\ pc[c] = "getPullRequest"
  /\ LET cur == prsToUpsert[c][1]
         prev == getPullRequest(db[repository[c]], cur.number)
     IN  IF IsUnchanged(cur, prev)
         THEN Finally(c, "noChange", "none")
         ELSE /\ pc' = [pc EXCEPT ![c] = "transaction"]
              /\ UNCHANGED <<activeFetchCountPerRepository, outcome,
                             failedAt, decrements, emitted,
                             pullRequests, remotesLeft>>
  /\ UNCHANGED <<db, txn, repository, lastUpdatedAt, requests, apiResult,
                 prsToDelete, prsToUpsert, dbAtStart>>
  /\ UNCHANGED <<lookups, lastFetch, nonStoreVars, remotes>>

GetPullRequestThrows(c) ==
  /\ pc[c] = "getPullRequest"
  /\ Finally(c, "failed", "getPullRequest")
  /\ UNCHANGED <<db, txn, repository, lastUpdatedAt, requests, apiResult,
                 prsToDelete, prsToUpsert, dbAtStart>>
  /\ UNCHANGED <<lookups, lastFetch, nonStoreVars, remotes>>

DeletePullRequestsUnstaged(c) ==
  /\ pc[c] = "transaction"
  /\ txn.owner = 0
  /\ db' = [db EXCEPT ![repository[c]] =
              deletePullRequests(db[repository[c]], prsToDelete[c])]
  /\ txn' = [owner |-> c, table |-> db'[repository[c]]]
  /\ pc' = [pc EXCEPT ![c] = "putPullRequests"]
  /\ UNCHANGED <<activeFetchCountPerRepository, repository,
                 lastUpdatedAt, requests, apiResult, prsToDelete,
                 prsToUpsert, outcome, failedAt, dbAtStart, decrements,
                 emitted, pullRequests, remotesLeft>>
  /\ UNCHANGED <<lookups, lastFetch, nonStoreVars, remotes>>

\* The 'rw' transaction on the table starts (one at a time) and
\* deletePullRequests runs in it: its writes are staged.
DeletePullRequests(c) ==
  /\ pc[c] = "transaction"
  /\ txn.owner = 0
  /\ txn' = [owner |-> c,
             table |-> deletePullRequests(db[repository[c]], prsToDelete[c])]
  /\ pc' = [pc EXCEPT ![c] = "putPullRequests"]
  /\ UNCHANGED <<activeFetchCountPerRepository, db, repository,
                 lastUpdatedAt, requests, apiResult, prsToDelete,
                 prsToUpsert, outcome, failedAt, dbAtStart,
                 decrements, emitted,
                 pullRequests, remotesLeft>>
  /\ UNCHANGED <<lookups, lastFetch, nonStoreVars, remotes>>

PutPullRequestsReturnsFalse(c) ==
  /\ pc[c] = "putPullRequests"
  /\ txn.owner = c
  /\ db' = [db EXCEPT ![repository[c]] =
              putPullRequests(txn.table, prsToUpsert[c])]
  /\ txn' = NoTxn
  /\ Finally(c, "noChange", "none")
  /\ UNCHANGED <<repository, lastUpdatedAt, requests, apiResult,
                 prsToDelete, prsToUpsert, dbAtStart>>
  /\ UNCHANGED <<lookups, lastFetch, nonStoreVars, remotes>>

PutPullRequestsNothing(c) ==
  /\ pc[c] = "putPullRequests"
  /\ txn.owner = c
  /\ db' = [db EXCEPT ![repository[c]] = txn.table]
  /\ txn' = NoTxn
  /\ pc' = [pc EXCEPT ![c] = "getAll"]
  /\ UNCHANGED <<activeFetchCountPerRepository, repository, lastUpdatedAt,
                 requests, apiResult, prsToDelete, prsToUpsert,
                 outcome, failedAt, dbAtStart, decrements, emitted,
                 pullRequests, remotesLeft>>
  /\ UNCHANGED <<lookups, lastFetch, nonStoreVars, remotes>>

\* putPullRequests runs in the transaction, which then commits: the staged
\* rows become the table's. cachePullRequests returns true and the call
\* reads the rows back.
PutPullRequests(c) ==
  /\ pc[c] = "putPullRequests"
  /\ txn.owner = c
  /\ db' = [db EXCEPT ![repository[c]] =
              putPullRequests(txn.table, prsToUpsert[c])]
  /\ txn' = NoTxn
  /\ pc' = [pc EXCEPT ![c] = "getAll"]
  /\ UNCHANGED <<activeFetchCountPerRepository, repository, lastUpdatedAt,
                 requests, apiResult, prsToDelete, prsToUpsert,
                 outcome, failedAt, dbAtStart, decrements, emitted,
                 pullRequests, remotesLeft>>
  /\ UNCHANGED <<lookups, lastFetch, nonStoreVars, remotes>>

TransactionFailsWithoutRollback(c) ==
  /\ pc[c] \in {"transaction", "putPullRequests"}
  /\ pc[c] = "putPullRequests" => txn.owner = c
  /\ db' = IF txn.owner = c THEN [db EXCEPT ![repository[c]] = txn.table]
           ELSE db
  /\ txn' = IF txn.owner = c THEN NoTxn ELSE txn
  /\ Finally(c, "failed", pc[c])
  /\ UNCHANGED <<repository, lastUpdatedAt, requests, apiResult,
                 prsToDelete, prsToUpsert, dbAtStart>>
  /\ UNCHANGED <<lookups, lastFetch, nonStoreVars, remotes>>

\* The transaction fails, at its start or in the delete, or between the
\* delete and the put or in the put: it is rolled back.
TransactionFails(c) ==
  /\ pc[c] \in {"transaction", "putPullRequests"}
  /\ pc[c] = "putPullRequests" => txn.owner = c
  /\ txn' = IF txn.owner = c THEN NoTxn ELSE txn
  /\ Finally(c, "failed", pc[c])
  /\ UNCHANGED <<db, repository, lastUpdatedAt, requests, apiResult,
                 prsToDelete, prsToUpsert, dbAtStart>>
  /\ UNCHANGED <<lookups, lastFetch, nonStoreVars, remotes>>

\* getAll reads the rows and resolves the repositories they refer to, some
\* of which the repositories store may not hold. With every base repository
\* found it resolves and the call asks git for the remotes; otherwise it
\* throws.
GetAll(c) ==
  /\ pc[c] = "getAll"
  /\ \E missing \in SUBSET RepositoryIds(db[repository[c]]) :
       LET run == GetAllLoop(
                    getAllPullRequestsInRepository(db[repository[c]]),
                    1, {}, <<>>, <<>>, missing)
       IN  /\ lookups' = [lookups EXCEPT ![c] = run.lookups]
           /\ IF run.status = "ok"
              THEN /\ pc' = [pc EXCEPT ![c] = "pruneForkedRemotes"]
                   /\ pullRequests' = [pullRequests EXCEPT ![c] = run.result]
                   /\ UNCHANGED <<activeFetchCountPerRepository, outcome,
                                  failedAt, decrements, emitted, remotesLeft>>
              ELSE Finally(c, "failed", "getAll")
  /\ UNCHANGED <<db, txn, repository, lastUpdatedAt, requests, apiResult,
                 prsToDelete, prsToUpsert, dbAtStart>>
  /\ UNCHANGED <<lastFetch, nonStoreVars, remotes>>

\* getAll throws: the read of the rows fails.
GetAllThrows(c) ==
  /\ pc[c] = "getAll"
  /\ Finally(c, "failed", "getAll")
  /\ UNCHANGED <<db, txn, repository, lastUpdatedAt, requests, apiResult,
                 prsToDelete, prsToUpsert, dbAtStart>>
  /\ UNCHANGED <<lookups, lastFetch, nonStoreVars, remotes>>

\* getRemotes resolves: pruneForkedRemotes collects the clone URLs of the
\* pull requests and goes through the remotes up to the first it removes.
\* With none to remove it completes and the update is emitted.
PruneForkedRemotes(c) ==
  /\ pc[c] = "pruneForkedRemotes"
  /\ LET toRemove == ToRemove(remotes[repository[c]],
                              prRemotes(pullRequests[c]))
     IN  IF toRemove = <<>>
         THEN Finally(c, "changed", "none")
         ELSE /\ remotesLeft' = [remotesLeft EXCEPT ![c] = toRemove]
              /\ pc' = [pc EXCEPT ![c] = "removeRemote"]
              /\ UNCHANGED <<activeFetchCountPerRepository, outcome,
                             failedAt, decrements, emitted, pullRequests>>
  /\ UNCHANGED <<db, txn, repository, lastUpdatedAt, requests, apiResult,
                 prsToDelete, prsToUpsert, dbAtStart>>
  /\ UNCHANGED <<lookups, lastFetch, nonStoreVars, remotes>>

\* removeRemote resolves: git has removed the remote of that name. The loop
\* goes on to the next remote to remove; after the last, pruneForkedRemotes
\* completes and the update is emitted.
RemoveRemote(c) ==
  /\ pc[c] = "removeRemote"
  /\ remotes' = [remotes EXCEPT ![repository[c]] =
                   removeRemote(@, Head(remotesLeft[c]).name)]
  /\ IF Tail(remotesLeft[c]) = <<>>
     THEN Finally(c, "changed", "none")
     ELSE /\ remotesLeft' = [remotesLeft EXCEPT ![c] = Tail(@)]
          /\ UNCHANGED <<activeFetchCountPerRepository, pc, outcome,
                         failedAt, decrements, emitted, pullRequests>>
  /\ UNCHANGED <<db, txn, repository, lastUpdatedAt, requests, apiResult,
                 prsToDelete, prsToUpsert, dbAtStart>>
  /\ UNCHANGED <<lookups, lastFetch, nonStoreVars>>

\* getRemotes or a removeRemote rejects.
PruneForkedRemotesThrows(c) ==
  /\ pc[c] \in {"pruneForkedRemotes", "removeRemote"}
  /\ Finally(c, "failed", "pruneForkedRemotes")
  /\ UNCHANGED <<db, txn, repository, lastUpdatedAt, requests, apiResult,
                 prsToDelete, prsToUpsert, dbAtStart>>
  /\ UNCHANGED <<lookups, lastFetch, nonStoreVars, remotes>>

\* The caller has seen the call resolve; the slot can hold a new call.
Return(c) ==
  /\ pc[c] = "done"
  /\ pc' = [pc EXCEPT ![c] = "idle"]
  /\ repository' = [repository EXCEPT ![c] = null]
  /\ lastUpdatedAt' = [lastUpdatedAt EXCEPT ![c] = NoDate]
  /\ requests' = [requests EXCEPT ![c] = <<>>]
  /\ apiResult' = [apiResult EXCEPT ![c] = <<>>]
  /\ prsToDelete' = [prsToDelete EXCEPT ![c] = <<>>]
  /\ prsToUpsert' = [prsToUpsert EXCEPT ![c] = <<>>]
  /\ outcome' = [outcome EXCEPT ![c] = "none"]
  /\ failedAt' = [failedAt EXCEPT ![c] = "none"]
  /\ decrements' = [decrements EXCEPT ![c] = 0]
  /\ emitted' = [emitted EXCEPT ![c] = <<>>]
  /\ lookups' = [lookups EXCEPT ![c] = <<>>]
  /\ lastFetch' = IF lastFetch = c THEN 0 ELSE lastFetch
  /\ UNCHANGED <<pullRequests, remotesLeft, remotes, nonStoreVars>>
  /\ UNCHANGED <<activeFetchCountPerRepository, db, txn, dbAtStart>>

(***************************************************************************)
(* Specifications                                                          *)
(***************************************************************************)

\* The remote pull requests of repository r in the runs of overlapping
\* calls: one pull request, open or closed.
OverlapPullRequests(r) ==
  {APIPullRequest(1, "a", 1, "open", "fork", r),
   APIPullRequest(1, "a", 1, "closed", "fork", r)}

\* The remote pull requests of repository r in the runs of one call after
\* the other: every number, with and without head repository; open with
\* title "a" as updated at 1 or retitled "b" at 2, or closed or merged at 2;
\* and pull request 1 as the API answers when it leaves out the base
\* repository.
SequentialPullRequests(r) ==
  {APIPullRequest(n, "a", 1, "open", h, r) :
     n \in PRNumbers, h \in {null, "fork"}}
  \cup
  {APIPullRequest(n, "b", 2, st, h, r) :
     n \in PRNumbers, st \in {"open", "closed", "merged"},
     h \in {null, "fork"}}
  \cup
  {APIPullRequest(1, "a", 1, "open", "fork", null)}

\* Overlapping calls on one repository.
Next ==
  \E c \in Calls :
    \/ Start(c, "repoA")
    \/ GetLastUpdated(c)
    \/ GetLastUpdatedThrows(c)
    \/ FetchResolves(c, OverlapPullRequests(repository[c]), FALSE)
    \/ FetchThrows(c)
    \/ ResolveRepositories(c)
    \/ GetPullRequest(c)
    \/ GetPullRequestThrows(c)
    \/ DeletePullRequests(c)
    \/ PutPullRequests(c)
    \/ TransactionFails(c)
    \/ GetAll(c)
    \/ GetAllThrows(c)
    \/ PruneForkedRemotes(c)
    \/ PruneForkedRemotesThrows(c)
    \/ Return(c)

Spec == Init /\ [][Next]_vars

\* One call after the other on one repository.
NextSequential ==
  \E c \in {1} :
    \/ Start(c, "repoA")
    \/ GetLastUpdated(c)
    \/ GetLastUpdatedThrows(c)
    \/ FetchResolves(c, SequentialPullRequests(repository[c]), FALSE)
    \/ FetchThrows(c)
    \/ ResolveRepositories(c)
    \/ GetPullRequest(c)
    \/ GetPullRequestThrows(c)
    \/ DeletePullRequests(c)
    \/ PutPullRequests(c)
    \/ TransactionFails(c)
    \/ GetAll(c)
    \/ GetAllThrows(c)
    \/ PruneForkedRemotes(c)
    \/ PruneForkedRemotesThrows(c)
    \/ Return(c)

SpecSequential == Init /\ [][NextSequential]_vars

\* Two overlapping calls on one repository, the order of their fetches
\* recorded.
NextOverlap ==
  \E c \in {1, 2} :
    \/ Start(c, "repoA")
    \/ GetLastUpdated(c)
    \/ GetLastUpdatedThrows(c)
    \/ FetchResolves(c, OverlapPullRequests(repository[c]), TRUE)
    \/ FetchThrows(c)
    \/ ResolveRepositories(c)
    \/ GetPullRequest(c)
    \/ GetPullRequestThrows(c)
    \/ DeletePullRequests(c)
    \/ PutPullRequests(c)
    \/ TransactionFails(c)
    \/ GetAll(c)
    \/ GetAllThrows(c)
    \/ PruneForkedRemotes(c)
    \/ PruneForkedRemotesThrows(c)
    \/ Return(c)

SpecOverlap == Init /\ [][NextOverlap]_vars

\* The remote pull requests of repository r in the runs on two
\* repositories: one open pull request.
RepositoriesPullRequests(r) == {APIPullRequest(1, "a", 1, "open", "fork", r)}

\* Overlapping calls, each on one of the repositories: the first call on
\* either, the others on repoA, which is, up to the names of the repositories
\* and of the calls, every way of sharing them with at most one call on the
\* other repository.
NextRepositories ==
  \E c \in Calls :
    \/ \E r \in (IF c = 1 THEN Repositories ELSE {"repoA"}) : Start(c, r)
    \/ GetLastUpdated(c)
    \/ GetLastUpdatedThrows(c)
    \/ FetchResolves(c, RepositoriesPullRequests(repository[c]), FALSE)
    \/ FetchThrows(c)
    \/ ResolveRepositories(c)
    \/ GetPullRequest(c)
    \/ GetPullRequestThrows(c)
    \/ DeletePullRequests(c)
    \/ PutPullRequests(c)
    \/ TransactionFails(c)
    \/ GetAll(c)
    \/ GetAllThrows(c)
    \/ PruneForkedRemotes(c)
    \/ PruneForkedRemotesThrows(c)
    \/ Return(c)

SpecRepositories == Init /\ [][NextRepositories]_vars

\* The remote pull requests of repository r in the runs that prune remotes:
\* pull request 1 from a fork, open or closed, and pull request 2, open,
\* from a repository without clone URL.
RemotesPullRequests(r) ==
  {APIPullRequest(1, "a", 1, "open", "fork", r),
   APIPullRequest(1, "a", 1, "closed", "fork", r),
   APIPullRequest(2, "a", 1, "open", "bare", r)}

\* The remotes a clone may have besides origin: the remote of the fork of
\* pull request 1, the remote of a fork no pull request is from, and two
\* remotes the user added that point to that fork too, one of them with the
\* prefix inside its name.
OtherRemotes ==
  <<Remote(ForkedRemotePrefix \o <<"fork">>, cloneURL("fork")),
    Remote(ForkedRemotePrefix \o <<"gone">>, cloneURL("gone")),
    Remote(<<"upstream">>, cloneURL("gone")),
    Remote(<<"my-">> \o ForkedRemotePrefix \o <<"gone">>, cloneURL("gone"))>>

\* The store with repoA cloned with origin and any of the other remotes.
InitRemotes ==
  /\ InitPullRequestStore
  /\ \E chosen \in SUBSET (1..Len(OtherRemotes)) :
       remotes =
         [r \in Repositories |->
            IF r = "repoA"
            THEN <<Origin(r)>>
                   \o SelectSeq(OtherRemotes,
                                LAMBDA o : \E i \in chosen :
                                             OtherRemotes[i] = o)
            ELSE <<Origin(r)>>]
  /\ unresolved = {}
  /\ InitMojave
  /\ InitNoUI

\* One call after the other on a repository with remotes to prune.
NextRemotes ==
  \E c \in {1} :
    \/ Start(c, "repoA")
    \/ GetLastUpdated(c)
    \/ GetLastUpdatedThrows(c)
    \/ FetchResolves(c, RemotesPullRequests(repository[c]), FALSE)
    \/ FetchThrows(c)
    \/ ResolveRepositories(c)
    \/ GetPullRequest(c)
    \/ GetPullRequestThrows(c)
    \/ DeletePullRequests(c)
    \/ PutPullRequests(c)
    \/ TransactionFails(c)
    \/ GetAll(c)
    \/ GetAllThrows(c)
    \/ PruneForkedRemotes(c)
    \/ RemoveRemote(c)
    \/ PruneForkedRemotesThrows(c)
    \/ Return(c)

SpecRemotes == InitRemotes /\ [][NextRemotes]_vars

\* The variables of the pull request store.
storeVars == <<activeFetchCountPerRepository, db, txn, pc, repository,
               lastUpdatedAt, requests, apiResult, prsToDelete, prsToUpsert,
               outcome, failedAt, dbAtStart, decrements, emitted, lookups,
               lastFetch, pullRequests, remotes, remotesLeft>>

\* The rows a repository r may have when getAll is called on its own: for
\* each number none, or a row titled "a" or "b", with or without head
\* repository id.
GetAllTables(r) ==
  LET rows(n) == {dbPr(APIPullRequest(n, t, 1, "open", h, r),
                       [dbID |-> h], [dbID |-> r]) :
                    t \in {"a", "b"}, h \in {null, "fork"}}
  IN  UNION {{table \in [numbers -> UNION {rows(n) : n \in numbers}] :
                \A n \in numbers : table[n].number = n}
             : numbers \in SUBSET PRNumbers}

\* getAll is called on its own, on any rows and with any of the
\* repositories missing from the repositories store.
InitGetAll ==
  /\ InitCalls
  /\ remotes = [r \in Repositories |-> <<Origin(r)>>]
  /\ \E table \in GetAllTables("repoA") :
       db = [r \in Repositories |-> IF r = "repoA" THEN table ELSE EmptyTable]
  /\ unresolved \in SUBSET {"fork", "repoA"}
  /\ InitMojave
  /\ InitNoUI

CallGetAll ==
  /\ getAllReturn = <<>>
  /\ getAllReturn' =
       <<GetAllLoop(getAllPullRequestsInRepository(db["repoA"]),
                    1, {}, <<>>, <<>>, unresolved)>>
  /\ UNCHANGED <<storeVars, unresolved, osVars, uiVars>>

NextGetAll == CallGetAll

SpecGetAll == InitGetAll /\ [][NextGetAll]_vars

\* isMojaveOrLater() is called, on any platform and version.
InitOS ==
  /\ InitStore
  /\ DARWIN \in BOOLEAN
  /\ osVersion \in OSVersions
  /\ mojaveOrLater = <<>>
  /\ InitNoUI

CallIsMojaveOrLater ==
  /\ mojaveOrLater = <<>>
  /\ mojaveOrLater' = <<isMojaveOrLater(DARWIN, osVersion)>>
  /\ UNCHANGED <<storeVars, getAllVars, DARWIN, osVersion, uiVars>>

NextOS == CallIsMojaveOrLater

SpecOS == InitOS /\ [][NextOS]_vars

(***************************************************************************)
(* The merge conflicts dialog:                                             *)
(* app/src/ui/merge-conflicts/merge-conflicts-dialog.tsx.                  *)
(*                                                                         *)
(* onCancel and onSubmit are async functions; the dialog is followed one   *)
(* handler call at a time.  The working directory status in the props may  *)
(* change while the dialog is shown, also while a handler awaits git.      *)
(***************************************************************************)
\* Files in props.status.files.
MaxFiles == 2

\* The statuses of a file the dialog tells apart; Modified stands for the
\* ones that are neither Conflicted nor Resolved.
AppFileStatus == {"Modified", "Conflicted", "Resolved"}

FileLists == UNION {[1..n -> AppFileStatus] : n \in 0..MaxFiles}

getUnmergedFiles(files) ==
  SelectSeq(files, LAMBDA status : status = "Conflicted"
                                     \/ status = "Resolved")

anyResolvedFilesOrConflicted(files) ==
  \E i \in 1..Len(getUnmergedFiles(files)) :
    getUnmergedFiles(files)[i] \in {"Resolved", "Conflicted"}

anyResolvedFiles(files) ==
  \E i \in 1..Len(getUnmergedFiles(files)) :
    getUnmergedFiles(files)[i] = "Resolved"

anyConflictedFiles(files) ==
  \E i \in 1..Len(getUnmergedFiles(files)) :
    getUnmergedFiles(files)[i] = "Conflicted"

\* A call a handler of a dialog makes, with what it passes besides the
\* repository.
CallOf(name, arg) == [call |-> name, arg |-> arg]

createMergeCommit(files) == CallOf("createMergeCommit", files)
abortMerge == CallOf("abortMerge", <<>>)
changeRepositorySection(tab) == CallOf("changeRepositorySection", <<tab>>)
showPopup(type) == CallOf("showPopup", <<type>>)
onDismissed == CallOf("onDismissed", <<>>)

\* The dialog is shown for a merge that left the working directory with
\* any files.
InitMergeConflictsDialog ==
  /\ mergeFiles \in FileLists
  /\ mergePc = "shown"
  /\ mergeHandler = "none"
  /\ mergeLog = <<>>

\* The user presses 'Abort merge', or the dialog is dismissed.
OnCancel ==
  /\ mergePc = "shown"
  /\ mergeHandler' = "onCancel"
  /\ IF ~anyResolvedFiles(mergeFiles)
     THEN /\ mergeLog' = <<abortMerge>>
          /\ mergePc' = "abortMerge"
     ELSE /\ mergeLog' = <<onDismissed, showPopup("AbortMerge")>>
          /\ mergePc' = "dismissed"
  /\ UNCHANGED <<mergeFiles, storeVars, getAllVars, osVars, forkVars,
                 diffVars>>

AbortMergeResolves ==
  /\ mergePc = "abortMerge"
  /\ mergeLog' = Append(mergeLog, onDismissed)
  /\ mergePc' = "dismissed"
  /\ UNCHANGED <<mergeFiles, mergeHandler, storeVars, getAllVars, osVars,
                 forkVars, diffVars>>

\* abortMerge rejects, and with it the promise of onCancel.
AbortMergeRejects ==
  /\ mergePc = "abortMerge"
  /\ mergePc' = "shown"
  /\ UNCHANGED <<mergeFiles, mergeHandler, mergeLog, storeVars, getAllVars,
                 osVars, forkVars, diffVars>>

\* The user presses 'Commit merge', which no conflicted file disables.
OnSubmit ==
  /\ mergePc = "shown"
  /\ ~anyConflictedFiles(mergeFiles)
  /\ mergeHandler' = "onSubmit"
  /\ mergeLog' = <<createMergeCommit(mergeFiles)>>
  /\ mergePc' = "createMergeCommit"
  /\ UNCHANGED <<mergeFiles, storeVars, getAllVars, osVars, forkVars,
                 diffVars>>

CreateMergeCommitResolves ==
  /\ mergePc = "createMergeCommit"
  /\ mergeLog' = mergeLog \o <<changeRepositorySection("Changes"),
                               onDismissed>>
  /\ mergePc' = "dismissed"
  /\ UNCHANGED <<mergeFiles, mergeHandler, storeVars, getAllVars, osVars,
                 forkVars, diffVars>>

CreateMergeCommitRejectsDismissing ==
  /\ mergePc = "createMergeCommit"
  /\ mergeLog' = Append(mergeLog, onDismissed)
  /\ mergePc' = "dismissed"
  /\ UNCHANGED <<mergeFiles, mergeHandler, storeVars, getAllVars, osVars,
                 forkVars, diffVars>>

\* createMergeCommit rejects, and with it the promise of onSubmit.
CreateMergeCommitRejects ==
  /\ mergePc = "createMergeCommit"
  /\ mergePc' = "shown"
  /\ UNCHANGED <<mergeFiles, mergeHandler, mergeLog, storeVars, getAllVars,
                 osVars, forkVars, diffVars>>

\* The working directory changes and the dialog gets the new status.
StatusChanges ==
  /\ mergePc \in {"shown", "abortMerge", "createMergeCommit"}
  /\ mergeFiles' \in FileLists \ {mergeFiles}
  /\ UNCHANGED <<mergePc, mergeHandler, mergeLog, storeVars, getAllVars,
                 osVars, forkVars, diffVars>>

InitMergeConflicts ==
  /\ InitStore
  /\ InitMojave
  /\ InitMergeConflictsDialog
  /\ InitNoCreateForkDialog
  /\ InitNoTextDiff

NextMergeConflicts ==
  \/ OnCancel
  \/ AbortMergeResolves
  \/ AbortMergeRejects
  \/ OnSubmit
  \/ CreateMergeCommitResolves
  \/ CreateMergeCommitRejects
  \/ StatusChanges

SpecMergeConflicts == InitMergeConflicts /\ [][NextMergeConflicts]_vars

(***************************************************************************)
(* The fork dialog: app/src/ui/forks/create-fork-dialog.tsx.               *)
(***************************************************************************)
\* props.repository.gitHubRepository, owner login and name, and
\* props.account, its login.
ForkDialogProps ==
  [owner : {"desktop", "octocat"}, name : {"app", "docs"},
   account : {"alice", "bob"}]

\* What forkRepository or convertRepositoryToFork may reject with.
ForkErrors == {"Forbidden", "Not Found", "Network"}

\* The fork the API answers with: the repository of that name of the account.
ForkOf(props) == <<props.account, props.name>>

forkRepository(props) == CallOf("forkRepository", <<props.owner, props.name>>)
convertRepositoryToFork(props, fork) ==
  CallOf("convertRepositoryToFork", <<props.owner, props.name>> \o fork)
logError(e) == CallOf("log.error", <<e>>)
sendNonFatalException(kind, e) == CallOf("sendNonFatalException", <<kind, e>>)

renderWithSubmit(state) ==
  [onSubmit |-> TRUE,
   dismissable |-> ~state.loading,
   loading |-> state.loading,
   type |-> IF state.error # <<>> THEN "error" ELSE "normal",
   okButtonDisabled |-> state.error = <<>> /\ state.loading,
   cancelButtonDisabled |-> state.error = <<>> /\ state.loading]

\* What render makes of the state: the props of the Dialog, onSubmit as
\* whether a handler is passed, and those of the buttons of the content,
\* which the footer of the error content does not disable.
render(state) ==
  [onSubmit |-> IF state.error # <<>> THEN FALSE ELSE TRUE,
   dismissable |-> ~state.loading,
   loading |-> state.loading,
   type |-> IF state.error # <<>> THEN "error" ELSE "normal",
   okButtonDisabled |-> state.error = <<>> /\ state.loading,
   cancelButtonDisabled |-> state.error = <<>> /\ state.loading]

\* The dialog as constructed, for any repository and account.
InitCreateForkDialog ==
  /\ forkProps \in ForkDialogProps
  /\ forkPc = "shown"
  /\ forkState = [loading |-> FALSE, error |-> <<>>]
  /\ forkLog = <<>>

\* The user submits the dialog, which the Dialog allows when it has a
\* handler and the button is enabled: onSubmit up to the first await.
ForkOnSubmit ==
  /\ forkPc = "shown"
  /\ render(forkState).onSubmit
  /\ ~render(forkState).okButtonDisabled
  /\ forkState' = [forkState EXCEPT !.loading = TRUE]
  /\ forkLog' = Append(forkLog, forkRepository(forkProps))
  /\ forkPc' = "forkRepository"
  /\ UNCHANGED <<forkProps, storeVars, getAllVars, osVars, mergeVars,
                 diffVars>>

ForkRepositoryResolves ==
  /\ forkPc = "forkRepository"
  /\ forkLog' =
       Append(forkLog, convertRepositoryToFork(forkProps, ForkOf(forkProps)))
  /\ forkPc' = "convertRepositoryToFork"
  /\ UNCHANGED <<forkProps, forkState, storeVars, getAllVars, osVars,
                 mergeVars, diffVars>>

\* The catch block.
ForkCatch(e) ==
  /\ forkLog' = forkLog \o <<logError(e),
                             sendNonFatalException("forkCreation", e)>>
  /\ forkState' = [loading |-> FALSE, error |-> <<e>>]
  /\ forkPc' = "shown"
  /\ UNCHANGED <<forkProps, storeVars, getAllVars, osVars, mergeVars,
                 diffVars>>

ForkRepositoryRejects(e) ==
  /\ forkPc = "forkRepository"
  /\ ForkCatch(e)

ConvertRepositoryToForkResolves ==
  /\ forkPc = "convertRepositoryToFork"
  /\ forkState' = [forkState EXCEPT !.loading = FALSE]
  /\ forkLog' = Append(forkLog, onDismissed)
  /\ forkPc' = "dismissed"
  /\ UNCHANGED <<forkProps, storeVars, getAllVars, osVars, mergeVars,
                 diffVars>>

ConvertRepositoryToForkRejects(e) ==
  /\ forkPc = "convertRepositoryToFork"
  /\ ForkCatch(e)

\* The user dismisses the dialog, or cancels it: the Dialog calls
\* props.onDismissed, and the dialog is gone.
ForkDismissed ==
  /\ forkPc = "shown"
  /\ render(forkState).dismissable
  /\ ~render(forkState).cancelButtonDisabled
  /\ forkPc' = "dismissed"
  /\ UNCHANGED <<forkProps, forkState, forkLog, storeVars, getAllVars,
                 osVars, mergeVars, diffVars>>

InitCreateFork ==
  /\ InitStore
  /\ InitMojave
  /\ InitNoMergeConflictsDialog
  /\ InitCreateForkDialog
  /\ InitNoTextDiff

NextCreateFork ==
  \/ ForkOnSubmit
  \/ ForkRepositoryResolves
  \/ \E e \in ForkErrors : ForkRepositoryRejects(e)
  \/ ConvertRepositoryToForkResolves
  \/ \E e \in ForkErrors : ConvertRepositoryToForkRejects(e)
  \/ ForkDismissed

SpecCreateFork == InitCreateFork /\ [][NextCreateFork]_vars

(***************************************************************************)
(* The text diff: app/src/ui/diff/text-diff.tsx, initDiffSyntaxMode.       *)
(*                                                                         *)
(* componentDidMount calls initDiffSyntaxMode, which awaits the contents   *)
(* of the file and then their highlighting.  While it awaits, the          *)
(* component may get new props.                                            *)
(***************************************************************************)
\* this.props, as far as initDiffSyntaxMode reads it: file.id, text, hunks.
TextDiffProps == [id : {"f1", "f2"}, text : {"t1", "t2"}, hunks : {"h1", "h2"}]

highlightParametersEqualById(newProps, prevProps) ==
  IF newProps = prevProps
  THEN TRUE
  ELSE newProps.id = prevProps.id

highlightParametersEqual(newProps, prevProps) ==
  IF newProps = prevProps
  THEN TRUE
  ELSE newProps.id = prevProps.id /\ newProps.text = prevProps.text

\* The tokens highlightContents resolves with: those of the contents of the
\* file, for the lines the line filters of the hunks select.
Tokens(file, hunks) == [file |-> file, lineFilters |-> hunks]

\* IDiffSyntaxModeSpec.
DiffSyntaxModeSpec(hunks, tokens) ==
  [name |-> "DiffSyntaxMode.ModeName", hunks |-> hunks, tokens |-> tokens]

\* The component is constructed and rendered, with any props.
InitTextDiffMounted ==
  /\ diffProps \in TextDiffProps
  /\ propsSnapshot = <<>>
  /\ diffPc = "componentDidMount"
  /\ codeMirrorMode = <<>>
  /\ diffChanged = FALSE

\* initDiffSyntaxMode up to the first await; it returns at once when there
\* is no editor.
ComponentDidMount(hasEditor) ==
  /\ diffPc = "componentDidMount"
  /\ IF ~hasEditor
     THEN /\ diffPc' = "done"
          /\ UNCHANGED propsSnapshot
     ELSE /\ propsSnapshot' = <<diffProps>>
          /\ diffPc' = "getFileContents"
  /\ UNCHANGED <<diffProps, codeMirrorMode, diffChanged, storeVars,
                 getAllVars, osVars, mergeVars, forkVars>>

\* The component gets new props.
PropsChange(newProps) ==
  /\ diffPc \in {"getFileContents", "highlightContents", "done"}
  /\ newProps # diffProps
  /\ diffProps' = newProps
  /\ diffChanged' =
       (\/ diffChanged
        \/ /\ diffPc # "done"
           /\ (newProps.id # diffProps.id \/ newProps.text # diffProps.text))
  /\ UNCHANGED <<propsSnapshot, diffPc, codeMirrorMode, storeVars,
                 getAllVars, osVars, mergeVars, forkVars>>

GetFileContentsResolves ==
  /\ diffPc = "getFileContents"
  /\ diffPc' = IF ~highlightParametersEqual(diffProps, propsSnapshot[1])
               THEN "done"
               ELSE "highlightContents"
  /\ UNCHANGED <<diffProps, propsSnapshot, codeMirrorMode, diffChanged,
                 storeVars, getAllVars, osVars, mergeVars, forkVars>>

HighlightContentsResolves ==
  /\ diffPc = "highlightContents"
  /\ diffPc' = "done"
  /\ codeMirrorMode' =
       IF ~highlightParametersEqual(diffProps, propsSnapshot[1])
       THEN codeMirrorMode
       ELSE <<DiffSyntaxModeSpec(diffProps.hunks,
                                 Tokens(propsSnapshot[1].id,
                                        propsSnapshot[1].hunks))>>
  /\ UNCHANGED <<diffProps, propsSnapshot, diffChanged, storeVars,
                 getAllVars, osVars, mergeVars, forkVars>>

\* getFileContents or highlightContents rejects, and with it the promise of
\* initDiffSyntaxMode.
HighlightingRejects ==
  /\ diffPc \in {"getFileContents", "highlightContents"}
  /\ diffPc' = "done"
  /\ UNCHANGED <<diffProps, propsSnapshot, codeMirrorMode, diffChanged,
                 storeVars, getAllVars, osVars, mergeVars, forkVars>>

InitTextDiff ==
  /\ InitStore
  /\ InitMojave
  /\ InitNoMergeConflictsDialog
  /\ InitNoCreateForkDialog
  /\ InitTextDiffMounted

NextTextDiff ==
  \/ \E hasEditor \in BOOLEAN : ComponentDidMount(hasEditor)
  \/ \E newProps \in TextDiffProps : PropsChange(newProps)
  \/ GetFileContentsResolves
  \/ HighlightContentsResolves
  \/ HighlightingRejects

SpecTextDiff == InitTextDiff /\ [][NextTextDiff]_vars

(***************************************************************************)
(* Properties                                                              *)
(***************************************************************************)

\* The call has ended: its promise is resolved or rejected.
Ended(c) == pc[c] \in {"done", "rejected"}

\* The call has started and has not ended.
InFlight(c) == pc[c] \notin {"idle", "done", "rejected"}

Failed(c) == pc[c] = "rejected" \/ (pc[c] = "done" /\ outcome[c] = "failed")

\* The rows of the repository the call refreshes.
Cache(c) == db[repository[c]]

\* cachePullRequests of the call has returned true.
ReturnedTrue(c) ==
  \/ pc[c] \in {"getAll", "pruneForkedRemotes", "removeRemote"}
  \/ pc[c] = "done" /\ outcome[c] = "changed"
  \/ pc[c] = "done" /\ failedAt[c] \in {"getAll", "pruneForkedRemotes"}

\* cachePullRequests of the call has returned false.
ReturnedFalse(c) == pc[c] = "done" /\ outcome[c] = "noChange"

\* The loop of cachePullRequests of the call has run to its end.
LoopCompleted(c) ==
  \/ pc[c] \in {"getPullRequest", "transaction", "putPullRequests",
                "getAll", "pruneForkedRemotes", "removeRemote"}
  \/ /\ pc[c] = "done"
     /\ apiResult[c] # <<>>
     /\ failedAt[c] \notin {"throws", "fatalError"}

\* The row a fetched pull request is stored as, field by field.
RowOf(pr) ==
  [number |-> pr.number, title |-> pr.title, createdAt |-> pr.created_at,
   updatedAt |-> pr.updated_at,
   head |-> [ref |-> pr.head.ref, sha |-> pr.head.sha,
             repoId |-> pr.head.repo],
   base |-> [ref |-> pr.base.ref, sha |-> pr.base.sha,
             repoId |-> pr.base.repo],
   author |-> pr.user.login]

Numbers(prs) == {prs[i].number : i \in 1..Len(prs)}

\* The fetched list of the call is exactly one open pull request.
OneOpen(c) == Len(apiResult[c]) = 1 /\ apiResult[c][1].state = "open"

\* ... and the cache held, when the call began, a row equal to it in every
\* field.
OneOpenAsCached(c) ==
  /\ OneOpen(c)
  /\ apiResult[c][1].number \in DOMAIN dbAtStart
  /\ dbAtStart[apiResult[c][1].number] = RowOf(apiResult[c][1])

\* ... or the cache held no row of its number, or a row that differs.
OneOpenNotAsCached(c) == OneOpen(c) /\ ~OneOpenAsCached(c)

\* C1 (as claimed): every call that has ended, resolved or rejected, has
\* decremented the counter of its repository exactly once, whichever awaited
\* step threw.
C1_DecrementedOnEveryExit ==
  \A c \in Calls : Ended(c) => decrements[c] = 1

\* C2 (as claimed): the active-fetch counter of the repository equals the
\* number of calls that have started and not yet ended, so it is 0 when all
\* have ended, succeeded or failed.
C2_CounterIsCallsInFlight ==
  CurrentCount(activeFetchCountPerRepository, "repoA")
    = Cardinality({c \in Calls : InFlight(c)})

\* C3 (as claimed): after a call that failed, at whatever step, the rows of
\* its repository are those of before the call.
C3_FailedCallLeavesRows ==
  \A c \in Calls : Failed(c) => Cache(c) = dbAtStart

\* C3 (amended): after a call that failed at a step up to and including the
\* commit, the rows are those of before the call; after one that failed
\* later (reading the rows back, pruning remotes), they are those of before
\* the call with all its deletions and all its upserts applied.
C3_FailedCallLeavesRowsOrCommitted ==
  \A c \in Calls :
    Failed(c) =>
      IF failedAt[c] \in {"getAll", "pruneForkedRemotes"}
      THEN Cache(c) = putPullRequests(
                        deletePullRequests(dbAtStart, prsToDelete[c]),
                        prsToUpsert[c])
      ELSE Cache(c) = dbAtStart

\* A call failed between the delete and the put of its transaction, and the
\* delete was of a cached row.
C3_Witness ==
  \E c \in Calls :
    /\ Failed(c)
    /\ failedAt[c] = "putPullRequests"
    /\ Numbers(prsToDelete[c]) \cap DOMAIN dbAtStart # {}

\* C4 (as claimed): once cachePullRequests has completed, the cache holds no
\* row with the number of a fetched pull request that is closed or merged.
C4_ClosedOrMergedNotCached ==
  \A c \in Calls :
    ReturnedTrue(c) \/ ReturnedFalse(c) =>
      \A i \in 1..Len(apiResult[c]) :
        IsClosedOrMerged(apiResult[c][i]) =>
          apiResult[c][i].number \notin DOMAIN Cache(c)

\* C5: every change of the rows of a repository is the whole commit of one
\* call's reconciliation, all its deletions and all its upserts; so in every
\* state, also after a failure between the delete and the put, the rows show
\* all of a reconciliation or none of it.
C5_CommitIsAtomic ==
  [][\A r \in Repositories :
       \/ db'[r] = db[r]
       \/ \E c \in Calls :
            /\ repository[c] = r
            /\ pc[c] = "putPullRequests"
            /\ db'[r] = putPullRequests(
                          deletePullRequests(db[r], prsToDelete[c]),
                          prsToUpsert[c])]_vars

\* A transaction is between its delete, of a cached row, and its put, of
\* some row: the cache still shows the row.
C5_Witness ==
  \E c \in Calls :
    /\ pc[c] = "putPullRequests"
    /\ Len(prsToUpsert[c]) > 0
    /\ Numbers(prsToDelete[c]) \cap DOMAIN Cache(c) # {}
    /\ Cache(c) = dbAtStart

\* C6: when the fetched list is exactly one open pull request and the cache
\* holds a row equal to it in every field, cachePullRequests never opens the
\* transaction and never returns true, the rows stay as they were, and the
\* call ends with "no change" (or with the failure of one of the reads
\* before the comparison).
C6_IdenticalSingleIsNoChange ==
  \A c \in Calls :
    OneOpenAsCached(c) =>
      /\ pc[c] \in {"upsertGitHubRepository", "getPullRequest", "done"}
      /\ Cache(c) = dbAtStart
      /\ pc[c] = "done" =>
           \/ outcome[c] = "noChange"
           \/ /\ outcome[c] = "failed"
              /\ failedAt[c] \in {"throws", "fatalError", "getPullRequest"}

C6_Witness ==
  \E c \in Calls : OneOpenAsCached(c) /\ ReturnedFalse(c)

\* C7 (as claimed): when the fetched list is exactly one open pull request
\* and the cache holds no row equal to it, cachePullRequests does not return
\* false, and once it has returned true the cached row of that number is the
\* fetched pull request.
C7_ChangedSingleIsStored ==
  \A c \in Calls :
    OneOpenNotAsCached(c) =>
      /\ ~ReturnedFalse(c)
      /\ ReturnedTrue(c) =>
           /\ apiResult[c][1].number \in DOMAIN Cache(c)
           /\ Cache(c)[apiResult[c][1].number] = RowOf(apiResult[c][1])

\* C7 (amended): the same, for a pull request that has a head repository.
C7_ChangedSingleWithHeadIsStored ==
  \A c \in Calls :
    OneOpenNotAsCached(c) /\ apiResult[c][1].head.repo # null =>
      /\ ~ReturnedFalse(c)
      /\ ReturnedTrue(c) =>
           /\ apiResult[c][1].number \in DOMAIN Cache(c)
           /\ Cache(c)[apiResult[c][1].number] = RowOf(apiResult[c][1])

\* The title of a cached pull request changed, and the commit is done.
C7_Witness ==
  \E c \in Calls :
    /\ OneOpenNotAsCached(c)
    /\ apiResult[c][1].head.repo # null
    /\ apiResult[c][1].number \in DOMAIN dbAtStart
    /\ dbAtStart[apiResult[c][1].number].title # apiResult[c][1].title
    /\ ReturnedTrue(c)

\* C8: a call whose fetched list is empty never resolves a repository, reads
\* a row or opens the transaction: it ends at once with "no change", and the
\* rows are as they were.
C8_EmptyListIsNoChange ==
  \A c \in Calls :
    apiResult[c] = <<>> =>
      /\ pc[c] \in {"idle", "getLastUpdated", "fetch", "done", "rejected"}
      /\ pc[c] = "done" /\ failedAt[c] # "fetch" =>
           /\ outcome[c] = "noChange"
           /\ Cache(c) = dbAtStart
           /\ prsToDelete[c] = <<>> /\ prsToUpsert[c] = <<>>
           /\ txn.owner # c

\* An empty list was fetched for a repository that has cached rows.
C8_Witness ==
  \E c \in Calls :
    /\ pc[c] = "done" /\ failedAt[c] # "fetch"
    /\ apiResult[c] = <<>>
    /\ lastUpdatedAt[c] # NoDate
    /\ outcome[c] = "noChange"

\* C9: when the loop of cachePullRequests has run to its end, the delete and
\* upsert sets hold no pull request without head repository and hold every
\* other fetched pull request, in one of the two; and the loop fails only on
\* a list that has a pull request with a head repository.
C9_NoHeadIsSkipped ==
  \A c \in Calls :
    LET prs == apiResult[c]
        noHead == {prs[i].number : i \in {j \in 1..Len(prs) :
                                           prs[j].head.repo = null}}
    IN  /\ LoopCompleted(c) =>
             /\ Numbers(prsToDelete[c]) \cap noHead = {}
             /\ Numbers(prsToUpsert[c]) \cap noHead = {}
             /\ Numbers(prsToDelete[c]) \cup Numbers(prsToUpsert[c])
                  = Numbers(prs) \ noHead
        /\ pc[c] = "done" /\ failedAt[c] \in {"throws", "fatalError"} =>
             Numbers(prs) \ noHead # {}

\* A pull request without head repository came first in the list, and the
\* one after it is in a set.
C9_Witness ==
  \E c \in Calls :
    /\ LoopCompleted(c)
    /\ Len(apiResult[c]) = 2
    /\ apiResult[c][1].head.repo = null
    /\ apiResult[c][2].number \in
         Numbers(prsToDelete[c]) \cup Numbers(prsToUpsert[c])

\* C10: a call that has read the timestamp has issued exactly one API
\* request (a call never issues more): the "open" request when the
\* repository had no timestamp, that is no cached row, when the call began,
\* and else the "updated since" request with the timestamp it read, the
\* greatest updatedAt of the rows.
C10_OneRequestByTimestamp ==
  \A c \in Calls :
    IF pc[c] \in {"idle", "getLastUpdated", "rejected"}
    THEN requests[c] = <<>>
    ELSE /\ Len(requests[c]) = 1
         /\ lastUpdatedAt[c] = getLastUpdated(dbAtStart)
         /\ dbAtStart = EmptyTable => requests[c][1] = OpenRequest
         /\ dbAtStart # EmptyTable =>
              /\ requests[c][1].kind = "updatedSince"
              /\ requests[c][1].since = lastUpdatedAt[c]
              /\ \E n \in DOMAIN dbAtStart :
                   dbAtStart[n].updatedAt = requests[c][1].since
              /\ \A n \in DOMAIN dbAtStart :
                   dbAtStart[n].updatedAt <= requests[c][1].since

\* A call asked for the pull requests updated since 2 while a row updated
\* at 1 is cached too.
C10_Witness ==
  \E c \in Calls :
    /\ pc[c] = "fetch"
    /\ requests[c] = <<UpdatedRequest(2)>>
    /\ \E n \in DOMAIN dbAtStart : dbAtStart[n].updatedAt = 1

\* C11 (as claimed): a structural invariant violation met while the fetched
\* pull requests are reconciled (a pull request with a null base repository,
\* a resolved head or base repository record without database id) is
\* surfaced to the caller of refreshPullRequests: no call that met one has
\* resolved, the violation caught and logged as a warning.
C11_FatalErrorIsSurfaced ==
  \A c \in Calls :
    (pc[c] = "done" /\ outcome[c] = "failed") => failedAt[c] # "fatalError"

\* C12: in every reachable state the counter of every repository (0 for a
\* repository the map holds no entry for) is at least 0, and
\* isFetchingPullRequests of the repository is true exactly when its counter
\* is greater than 0.
C12_CounterNotNegative ==
  \A r \in Repositories :
    LET counter == IF r \in DOMAIN activeFetchCountPerRepository
                   THEN activeFetchCountPerRepository[r] ELSE 0
    IN  /\ counter >= 0
        /\ isFetchingPullRequests(activeFetchCountPerRepository, r)
             <=> counter > 0

\* The counter of one repository is back at 0 after a call on it ended,
\* while a call on the other repository is in flight.
C12_Witness ==
  \E r, q \in Repositories :
    /\ r \in DOMAIN activeFetchCountPerRepository
    /\ activeFetchCountPerRepository[r] = 0
    /\ \E c \in Calls : pc[c] = "done" /\ repository[c] = r
    /\ q # r
    /\ isFetchingPullRequests(activeFetchCountPerRepository, q)

\* The repository the call that takes the step refreshes.
RepositoryOfStep(c) == IF pc[c] = "idle" THEN repository'[c] ELSE repository[c]

\* C13: a step of a refreshPullRequests call on one repository never changes
\* the counter of a different repository; and the counter of each repository
\* counts only calls on that repository: those that have incremented it and
\* not (yet) decremented it.
C13_CounterOfOtherRepositoryUnchanged ==
  /\ [](\A r \in Repositories :
          CurrentCount(activeFetchCountPerRepository, r)
            = Cardinality({c \in Calls : /\ repository[c] = r
                                         /\ pc[c] \notin {"idle", "done"}}))
  /\ [][\A c \in Calls :
          pc'[c] # pc[c] =>
            \A r \in Repositories \ {RepositoryOfStep(c)} :
              CurrentCount(activeFetchCountPerRepository', r)
                = CurrentCount(activeFetchCountPerRepository, r)]_vars

\* A call on one repository has ended, its decrement made, while a call on
\* the other repository is in flight with that repository's counter at 1.
C13_Witness ==
  \E c, d \in Calls :
    /\ pc[c] = "done"
    /\ InFlight(d)
    /\ repository[c] # repository[d]
    /\ CurrentCount(activeFetchCountPerRepository, repository[d]) = 1
    /\ CurrentCount(activeFetchCountPerRepository, repository[c]) = 0

\* The rows of the fetched pull requests of the call that have a head
\* repository and whose state is in states, in the order fetched.
FetchedRows(c, states) ==
  LET prs == SelectSeq(apiResult[c],
                       LAMBDA p : p.head.repo # null /\ p.state \in states)
  IN  [i \in 1..Len(prs) |-> RowOf(prs[i])]

\* C14: when the loop of cachePullRequests has run, the delete set holds
\* exactly the fetched pull requests with a head repository that are closed
\* or merged and the upsert set exactly those that are neither, no pull
\* request in both; and when the delete set is not empty or the upsert set
\* holds two or more, the call makes no single-record check and does not
\* report 'no change', and once cachePullRequests has returned true the
\* rows are those of before with the deletes, then the upserts, applied.
C14_PartitionIsCommitted ==
  \A c \in Calls :
    LoopCompleted(c) =>
      LET toDelete == FetchedRows(c, {"closed", "merged"})
          toUpsert == FetchedRows(c, {"open"})
      IN  /\ prsToDelete[c] = toDelete
          /\ prsToUpsert[c] = toUpsert
          /\ Numbers(prsToDelete[c]) \cap Numbers(prsToUpsert[c]) = {}
          /\ (Len(toDelete) > 0 \/ Len(toUpsert) >= 2) =>
               /\ pc[c] # "getPullRequest"
               /\ failedAt[c] # "getPullRequest"
               /\ ~ReturnedFalse(c)
               /\ ReturnedTrue(c) =>
                    Cache(c) = putPullRequests(
                                 deletePullRequests(dbAtStart, toDelete),
                                 toUpsert)

\* On an incremental sync a call fetched a merged pull request that was
\* cached and a changed open one; cachePullRequests has returned true.
C14_Witness ==
  \E c \in Calls :
    /\ pc[c] = "done"
    /\ outcome[c] = "changed"
    /\ lastUpdatedAt[c] # NoDate
    /\ \E i \in 1..Len(apiResult[c]) :
         /\ apiResult[c][i].state = "merged"
         /\ apiResult[c][i].number \in DOMAIN dbAtStart
    /\ Len(prsToDelete[c]) = 1
    /\ Len(prsToUpsert[c]) = 1

\* C15: whenever cachePullRequests of a call has returned false, the rows of
\* its repository are those of before the call, and the call holds no
\* transaction on the table.
C15_FalseLeavesRows ==
  \A c \in Calls :
    ReturnedFalse(c) => Cache(c) = dbAtStart /\ txn.owner # c

\* cachePullRequests returned false for one open pull request equal to its
\* cached row, with a second row cached.
C15_Witness ==
  \E c \in Calls :
    /\ ReturnedFalse(c)
    /\ Len(apiResult[c]) = 1
    /\ Cardinality(DOMAIN dbAtStart) = 2
    /\ Cache(c) = dbAtStart

C17_OneLookupPerRepositoryId ==
  \A c \in Calls :
    /\ \A i, j \in 1..Len(lookups[c]) :
         i # j => lookups[c][i] # lookups[c][j]
    /\ pc[c] = "pruneForkedRemotes" =>
         {lookups[c][i] : i \in 1..Len(lookups[c])}
           = RepositoryIds(Cache(c))

\* getAll has resolved over two rows, which refer to the same head and the
\* same base repository: four references, two lookups.
C17_Witness ==
  \E c \in Calls :
    /\ pc[c] = "pruneForkedRemotes"
    /\ Cardinality(DOMAIN Cache(c)) = 2
    /\ lookups[c] = <<"fork", "repoA">>

\* The positions in the log of call c of the notifications it emits in the
\* step for repository r from updateActiveFetchCount.
CountNotifications(c, r) ==
  {i \in (Len(emitted[c]) + 1)..Len(emitted'[c]) :
     emitted'[c][i] = [repository |-> r, from |-> "updateActiveFetchCount"]}

\* C18: in a step that changes the counter of a repository, by an increment
\* or a decrement, exactly one call emits exactly one update notification
\* for that repository from updateActiveFetchCount, as the last thing it
\* emits in the step; a step that leaves the counter as it was emits none.
C18_OneNotificationPerCounterChange ==
  [][\A r \in Repositories :
       IF CurrentCount(activeFetchCountPerRepository', r)
            # CurrentCount(activeFetchCountPerRepository, r)
       THEN \E c \in Calls :
              /\ CountNotifications(c, r) = {Len(emitted'[c])}
              /\ \A d \in Calls \ {c} : CountNotifications(d, r) = {}
       ELSE \A c \in Calls : CountNotifications(c, r) = {}]_vars

\* A call that changed the cache has ended: it has emitted the notification
\* of the increment, that of the changed pull requests and that of the
\* decrement, while the counter of its repository is still above 0.
C18_Witness ==
  \E c \in Calls :
    /\ pc[c] = "done"
    /\ emitted[c] =
         <<[repository |-> repository[c], from |-> "updateActiveFetchCount"],
           [repository |-> repository[c], from |-> "refreshPullRequests"],
           [repository |-> repository[c], from |-> "updateActiveFetchCount"]>>
    /\ isFetchingPullRequests(activeFetchCountPerRepository, repository[c])

\* The number a decimal numeral stands for.
RECURSIVE NumberOf(_)
NumberOf(str) ==
  IF str = <<>> THEN 0
  ELSE NumberOf(SubSeq(str, 1, Len(str) - 1)) * 10 + (str[Len(str)] - Zero)

\* The version 'major.minor[.patch]' is 10.14 or later.
IsAtLeast1014(str) ==
  LET parts == Split(str)
      major == NumberOf(parts[1])
      minor == NumberOf(parts[2])
  IN  major > 10 \/ (major = 10 /\ minor >= 14)

\* C19 (as claimed): what isMojaveOrLater() returned is true exactly when the
\* platform is macOS, the parser reported a version, the version has at least
\* two dot-separated parts and, read as numbers, is 10.14 or later.
C19_TrueFrom1014 ==
  mojaveOrLater # <<>> =>
    mojaveOrLater[1] =
      (/\ DARWIN
       /\ osVersion # <<>>
       /\ Len(Split(osVersion[1])) >= 2
       /\ IsAtLeast1014(osVersion[1]))

\* The rows of the repository of call c agree with what the call fetched:
\* no row for a fetched pull request that is closed or merged, the fetched
\* record as the row of one that is open (of those with a head repository).
AgreesWithFetch(table, c) ==
  \A i \in 1..Len(apiResult[c]) :
    LET pr == apiResult[c][i]
    IN  pr.head.repo # null =>
          IF pr.state = "open"
          THEN pr.number \in DOMAIN table /\ table[pr.number] = RowOf(pr)
          ELSE pr.number \notin DOMAIN table

C21_OnlyFetchedNumbersChange ==
  \A c \in Calls :
    pc[c] # "idle" =>
      /\ \A n \in DOMAIN dbAtStart \ Numbers(apiResult[c]) :
           n \in DOMAIN Cache(c) /\ Cache(c)[n] = dbAtStart[n]
      /\ \A n \in DOMAIN Cache(c) \ Numbers(apiResult[c]) :
           n \in DOMAIN dbAtStart

\* cachePullRequests has changed the rows, and a row whose number is not in
\* the fetched list is cached.
C21_Witness ==
  \E c \in Calls :
    /\ ReturnedTrue(c)
    /\ Cache(c) # dbAtStart
    /\ DOMAIN dbAtStart \ Numbers(apiResult[c]) # {}

\* The notification of a counter update, and that of a changed cache.
CounterUpdate(r) == [repository |-> r, from |-> "updateActiveFetchCount"]
CacheUpdate(r) == [repository |-> r, from |-> "refreshPullRequests"]

\* C22: up to the return of cachePullRequests a call removes no remote, looks
\* no repository up for getAll and emits nothing but the notification of the
\* increment. A call that ends with "no change" ends right from the fetch
\* (empty list) or from the read of the cached row (the single identical
\* record), never from getAll or the pruning, removing no remote, and has
\* emitted the two notifications of the counter only. A call that ends with
\* "changed" ends from pruneForkedRemotes, with no remote left that the
\* pruning removes, and has emitted the notification of the increment, then
\* that of the cache, then that of the decrement.
C22_NoChangeSkipsReadBackAndPruning ==
  [][\A c \in Calls :
       LET r == RepositoryOfStep(c)
       IN  /\ (/\ pc'[c] # pc[c]
               /\ pc[c] \in {"idle", "getLastUpdated", "fetch",
                             "upsertGitHubRepository", "getPullRequest",
                             "transaction", "putPullRequests"})
              => /\ remotes' = remotes
                 /\ lookups'[c] = <<>>
                 /\ pullRequests'[c] = <<>>
                 /\ emitted'[c] \in {<<CounterUpdate(r)>>,
                                     <<CounterUpdate(r), CounterUpdate(r)>>}
           /\ (pc[c] # "done" /\ pc'[c] = "done"
                 /\ outcome'[c] = "noChange")
              => /\ pc[c] \in {"fetch", "getPullRequest"}
                 /\ emitted'[c] = <<CounterUpdate(r), CounterUpdate(r)>>
           /\ (pc[c] # "done" /\ pc'[c] = "done" /\ outcome'[c] = "changed")
              => /\ pc[c] \in {"pruneForkedRemotes", "removeRemote"}
                 /\ ToRemove(remotes'[r], prRemotes(pullRequests[c])) = <<>>
                 /\ emitted'[c] = <<CounterUpdate(r), CacheUpdate(r),
                                    CounterUpdate(r)>>]_vars

\* A call has ended with "no change" for a repository that has cached rows
\* and a remote the pruning would remove.
C22_Witness ==
  \E c \in Calls :
    /\ pc[c] = "done" /\ outcome[c] = "noChange"
    /\ dbAtStart # EmptyTable
    /\ \E i \in 1..Len(remotes[repository[c]]) :
         remotes[repository[c]][i].name = ForkedRemotePrefix \o <<"gone">>

\* C23: a getAll call ends fatally, with no list, when the repositories
\* store holds no record for the base repository of one of the rows. Else it
\* returns as many pull requests as the repository has rows, the i-th from
\* the i-th last of the rows as the database returned them, with the
\* number, title, creation date, author and head and base ref and sha of
\* that row, its base repository resolved, and null as head repository when
\* the row has no head repository id.
C23_OnePullRequestPerRowReversed ==
  getAllReturn # <<>> =>
    LET run == getAllReturn[1]
        records == getAllPullRequestsInRepository(db["repoA"])
        count == Len(records)
    IN  IF \E i \in 1..count : records[i].base.repoId \in unresolved
        THEN run.status = "fatalError" /\ run.result = <<>>
        ELSE /\ run.status = "ok"
             /\ Len(run.result) = count
             /\ \A i \in 1..count :
                  LET pr == run.result[i]
                      record == records[count + 1 - i]
                  IN  /\ pr.pullRequestNumber = record.number
                      /\ pr.title = record.title
                      /\ pr.created.time = record.createdAt
                      /\ pr.author = record.author
                      /\ pr.head.ref = record.head.ref
                      /\ pr.head.sha = record.head.sha
                      /\ pr.base.ref = record.base.ref
                      /\ pr.base.sha = record.base.sha
                      /\ pr.base.gitHubRepository = record.base.repoId
                      /\ record.head.repoId = null =>
                           pr.head.gitHubRepository = null

\* getAll has returned the pull requests of two rows with different titles,
\* the second without head repository id.
C23_Witness ==
  /\ getAllReturn # <<>>
  /\ getAllReturn[1].status = "ok"
  /\ Len(getAllReturn[1].result) = 2
  /\ getAllReturn[1].result[1].pullRequestNumber = 2
  /\ getAllReturn[1].result[1].head.gitHubRepository = null
  /\ db["repoA"][2].head.repoId = null
  /\ db["repoA"][1].title # db["repoA"][2].title

\* The remotes of a list, as a set.
RemoteSet(list) == {list[i] : i \in 1..Len(list)}

\* The clone URLs of the head repositories of the pull requests getAll
\* returned to the call.
HeadCloneURLs(c) ==
  {cloneURL(pullRequests[c][i].head.gitHubRepository) :
     i \in 1..Len(pullRequests[c])} \ {cloneURL(null), cloneURL("bare")}

\* The remote has the forked-remote prefix and its URL is the clone URL of
\* the head repository of none of the pull requests of the call.
IsStaleForkedRemote(remote, c) ==
  /\ Head(remote.name) = "github-desktop-"
  /\ remote.url \notin HeadCloneURLs(c)

\* C24: while a call prunes, each of its steps adds no remote and removes
\* only remotes that have the forked-remote prefix and whose URL is the
\* head clone URL of none of the cached pull requests, as getAll returned
\* them to the call; and when the pruning has completed no such remote is
\* left.
C24_PrunesExactlyStaleForkedRemotes ==
  [][\A c \in Calls :
       pc[c] \in {"pruneForkedRemotes", "removeRemote"} =>
         LET before == RemoteSet(remotes[repository[c]])
             after == RemoteSet(remotes'[repository[c]])
         IN  /\ after \subseteq before
             /\ \A remote \in before \ after : IsStaleForkedRemote(remote, c)
             /\ (pc'[c] = "done" /\ outcome'[c] = "changed") =>
                  \A remote \in after : ~IsStaleForkedRemote(remote, c)]_vars

\* The pruning is about to remove the remote of a fork no pull request is
\* from, and nothing else, in a repository that also has the remote of the
\* fork of the cached pull request 1 and a remote without prefix that
\* points to the fork no pull request is from.
C24_Witness ==
  \E c \in Calls :
    /\ pc[c] = "removeRemote"
    /\ remotesLeft[c] = <<OtherRemotes[2]>>
    /\ {OtherRemotes[1], OtherRemotes[3], OtherRemotes[4]}
         \subseteq RemoteSet(remotes[repository[c]])
    /\ 1 \in DOMAIN Cache(c)

(***************************************************************************)
(* The merge conflicts dialog: properties.                                 *)
(***************************************************************************)
\* Some file of the list has the status Resolved.
HasResolved(files) == \E i \in DOMAIN files : files[i] = "Resolved"

\* The handler called last has made this call.
MergeCalled(call) == \E i \in DOMAIN mergeLog : mergeLog[i] = call

C26_CommitThenSectionThenDismiss ==
  /\ [](mergeHandler = "onSubmit"
          => /\ mergePc \in {"createMergeCommit", "shown"}
                  => (/\ Len(mergeLog) = 1
                      /\ mergeLog[1].call = "createMergeCommit")
             /\ mergePc = "dismissed"
                  => (/\ Len(mergeLog) = 3
                      /\ mergeLog[1].call = "createMergeCommit"
                      /\ mergeLog[2] = changeRepositorySection("Changes")
                      /\ mergeLog[3] = onDismissed))
  /\ [][/\ (mergePc = "shown" /\ mergePc' = "createMergeCommit")
            => (mergeLog' = <<createMergeCommit(mergeFiles)>>)
        /\ (mergePc = "createMergeCommit" /\ mergePc' # mergePc)
            => (mergeLog'[1] = mergeLog[1])]_vars

\* An onSubmit call has committed the merge, switched to the Changes section
\* and dismissed the modal.
C26_Witness ==
  /\ mergeHandler = "onSubmit"
  /\ mergePc = "dismissed"
  /\ Len(mergeLog) = 3

(***************************************************************************)
(* The fork dialog: properties.                                            *)
(***************************************************************************)
\* How many times onSubmit has made this call.
ForkCalls(call) == Cardinality({i \in DOMAIN forkLog : forkLog[i] = call})

\* onSubmit awaits one of its two steps.
ForkInFlight == forkPc \in {"forkRepository", "convertRepositoryToFork"}

\* C27: loading is true exactly while onSubmit awaits one of its two steps,
\* and then the dialog is not dismissable and no error is set. A submit that
\* has ended has either called onDismissed, once, after both steps, with no
\* error set, or stored the error, without calling onDismissed; with the
\* error stored the Dialog gets no submit handler, and from then on no call
\* is made and the state stays. A step that fails stores what it failed
\* with. No second fork request is made.
C27_DismissedOnceOrErrorStored ==
  /\ [](/\ forkState.loading <=> ForkInFlight
        /\ ForkInFlight
             => (/\ ~render(forkState).dismissable
                 /\ forkState.error = <<>>
                 /\ ForkCalls(onDismissed) = 0)
        /\ (forkLog # <<>> /\ ~ForkInFlight)
             => (ForkCalls(onDismissed) = 1 <=> forkState.error = <<>>)
        /\ ForkCalls(onDismissed) = 1
             => (/\ forkPc = "dismissed"
                 /\ forkLog = <<forkRepository(forkProps),
                                convertRepositoryToFork(forkProps,
                                                        ForkOf(forkProps)),
                                onDismissed>>)
        /\ forkState.error # <<>>
             => (/\ ForkCalls(onDismissed) = 0
                 /\ ~render(forkState).onSubmit)
        /\ ForkCalls(onDismissed) <= 1
        /\ ForkCalls(forkRepository(forkProps)) <= 1)
  /\ [][/\ forkState.error # <<>>
            => (forkLog' = forkLog /\ forkState' = forkState)
        /\ \A e \in ForkErrors :
             (ForkInFlight /\ ForkCalls(logError(e))' = 1)
               => (forkState'.error = <<e>>)
        /\ (ForkInFlight /\ ~ForkInFlight')
             => (forkPc' = "dismissed" <=> forkState'.error = <<>>)]_vars

\* convertRepositoryToFork has failed: the error is stored and the dialog
\* is still shown.
C27_Witness ==
  /\ forkState.error # <<>>
  /\ ForkCalls(convertRepositoryToFork(forkProps, ForkOf(forkProps))) = 1
  /\ forkPc = "shown"

(***************************************************************************)
(* The text diff: properties.                                              *)
(***************************************************************************)
\* File id and text of the props are those of the snapshot.
SameFileAndText(props, snapshot) ==
  props.id = snapshot.id /\ props.text = snapshot.text

\* C28 (as claimed): the mode is applied only when neither the file id nor
\* the text of the props has changed since the props were captured.
C28_AnyChangeDiscardsResult ==
  codeMirrorMode # <<>> => ~diffChanged

\* C28 (amended): the mode changes only when highlightContents resolves with
\* file id and text of the props of that moment equal to the captured ones,
\* and it is then made of the hunks of those props and of the tokens of the
\* captured file and hunks; when either step resolves with file id or text
\* different from the captured ones, initDiffSyntaxMode ends there and the
\* mode stays as it was.
C28_ComparedWhenEachStepResolves ==
  [][/\ codeMirrorMode' # codeMirrorMode
         => (/\ diffPc = "highlightContents"
             /\ SameFileAndText(diffProps, propsSnapshot[1])
             /\ codeMirrorMode' =
                  <<DiffSyntaxModeSpec(diffProps.hunks,
                                       Tokens(propsSnapshot[1].id,
                                              propsSnapshot[1].hunks))>>)
     /\ (/\ diffPc \in {"getFileContents", "highlightContents"}
         /\ diffPc' # diffPc
         /\ ~SameFileAndText(diffProps, propsSnapshot[1]))
         => (diffPc' = "done" /\ codeMirrorMode' = codeMirrorMode)]_vars

\* The mode has been applied although file id or text changed, and changed
\* back, while a step was in flight.
C28_Witness ==
  /\ codeMirrorMode # <<>>
  /\ diffChanged

====
